---- MODULE Spec2Model ----
(***************************************************************************)
(* League of Molts commentary engine.                                      *)
(*                                                                         *)
(* EventDetector (commentary-engine/src/event_detector.py): a state        *)
(* machine that diffs successive game-state snapshots into game events.    *)
(* CommentaryEngine (commentary-engine/src/main.py): the spectator set and *)
(* the broadcast fan-out over it, run by cooperatively scheduled tasks.    *)
(*                                                                         *)
(* Optional (possibly missing) snapshot fields are sequences of length at  *)
(* most one: << >> is a missing key, <<v>> a present one.  Timestamps are  *)
(* whole seconds.  Distances are compared by their squares.                *)
(***************************************************************************)
EXTENDS Integers, Sequences, FiniteSets, TLC

\* ------------------------------------------------------------------ bounds

\* detect() calls per behaviour (the snapshot tick counts them), for each of
\* the families of snapshots
MaxTick == 5
MaxRosterTick == 3
MaxOrderTick == 7
MaxMatchTick == 3
MaxPartialTick == 2
MaxKillerTick == 2
MaxLevelTick == 3
MaxRefreshTick == 2
MaxAttempts == 3
MaxFailures == 5
MaxMessages == 3
\* spectator connections that may ever be accepted
MaxSpectators == 3
\* the same, and the snapshots received, where the whole engine runs
MaxEngineSpectators == 2
MaxSnapshots == 2

\* ------------------------------------------------------- program constants

\* multi-kill window, seconds (event_detector.py:251)
KillWindow == 10
\* kill streak that makes a death a shutdown (event_detector.py:278)
ShutdownStreak == 3
\* level whose LEVEL_UP also announces the ultimate (event_detector.py:189)
UltimateLevel == 6
\* nexus health at or under which NEXUS_LOW is emitted (event_detector.py:349)
NexusLowHealth == 1000
\* nexus health assumed when the snapshot has no such key (event_detector.py:347)
NexusDefaultHealth == 5000

\* ---------------------------------------------------------- program state

VARIABLES
    \* EventDetector fields
    previous_state,        \* << >> (None) or <<last snapshot>>
    champion_states,       \* tracked champions, in dict insertion order
    first_blood_occurred,
    team_alive_count,
    match_started,
    \* the value returned by the last detect() call, and the exception that
    \* left it ("" when it returned)
    events,
    detect_error,
    \* observers (not program state): what the snapshots so far contained
    seenPlaying,           \* some snapshot so far had status "playing"
    deathSeen,             \* some death edge has been processed so far
    credits,               \* per champion id: times of all kills credited to it
    \* CommentaryEngine
    spectators,            \* self.spectators: the connections in the set
    conn,                  \* per connection: its handle_spectator task and socket
    bc,                    \* per calling task: its broadcast_commentary call
    session,               \* connect_to_match: the snapshot loop
    enh,                   \* the enhance_commentary task
    tts,                   \* the speak_commentary task
    \* CommentaryGenerator
    rendered,              \* << >> or <<the last generate_template call>>
    \* process_game_update
    scheduled,             \* << >> or <<the last pass of its loop body>>
    \* AgentClient
    client                 \* the run() call and what it has done so far

detectorVars == <<previous_state, champion_states, first_blood_occurred,
                  team_alive_count, match_started, events, detect_error,
                  seenPlaying, deathSeen, credits>>

engineVars == <<spectators, conn, bc>>

sessionVars == <<session, enh, tts>>

generatorVars == <<rendered>>

scheduleVars == <<scheduled>>

clientVars == <<client>>

vars == <<detectorVars, engineVars, sessionVars, generatorVars, scheduleVars,
          clientVars>>

\* ------------------------------------------------------------- helpers

Teams == <<"blue", "red">>

Get(opt, default) == IF opt = << >> THEN default ELSE opt[1]

\* d.get(k, default), d a record whose domain is the keys present
GetKey(d, k, default) == IF k \in DOMAIN d THEN d[k] ELSE default

EnemyTeam(team) == IF team = "blue" THEN "red" ELSE "blue"

\* squared Euclidean distance (the code compares the square roots)
Dist2(p, q) == (p.x - q.x) * (p.x - q.x) + (p.y - q.y) * (p.y - q.y)

\* position of champion id in the tracked sequence, 0 when not tracked
IndexOf(cs, id) ==
    IF \E i \in DOMAIN cs : cs[i].id = id
    THEN CHOOSE i \in DOMAIN cs : cs[i].id = id
    ELSE 0

GameEvent(event_type, timestamp, tick, data) ==
    [event_type |-> event_type, timestamp |-> timestamp, tick |-> tick, data |-> data]

\* ChampionState(...) as built on the first sighting of a champion id
NewChampionState(champ_data) ==
    [id |-> champ_data.id,
     champion |-> champ_data.champion,
     team |-> champ_data.team,
     health |-> champ_data.health,
     max_health |-> champ_data.max_health,
     level |-> champ_data.level,
     is_alive |-> champ_data.is_alive,
     position |-> champ_data.position,
     kill_streak |-> 0,
     recent_kills |-> << >>]

\* ------------------------------------------------ the detector's decisions
\* Each decision of the code is an operator; the operator defined just before
\* it is a deliberately wrong variant, against which the properties below are
\* tested for sensitivity.

MatchStartCondNoFlag(started, status) == status = "playing"
\* if not self.match_started and current_state.get("status") == "playing"
MatchStartCond(started, status) == ~started /\ status = "playing"

\* if current_state.get("status") == "ended"
MatchEndCond(status) == status = "ended"

FirstBloodCondAlways(fb) == TRUE
\* if not self.first_blood_occurred
FirstBloodCond(fb) == ~fb

InKillWindowNoPrune(timestamp, t) == TRUE
\* [t for t in killer.recent_kills if timestamp - t < 10]
InKillWindow(timestamp, t) == timestamp - t < KillWindow

MultiKillTypeShifted(recent_count) ==
    IF recent_count = 2 THEN <<"triple_kill">>
    ELSE IF recent_count = 3 THEN <<"double_kill">>
    ELSE IF recent_count > 3 THEN <<"multi_kill">>
    ELSE << >>
\* the if/elif chain on recent_count: the multi-kill event type, if any
MultiKillType(recent_count) ==
    IF recent_count = 2 THEN <<"double_kill">>
    ELSE IF recent_count = 3 THEN <<"triple_kill">>
    ELSE IF recent_count > 3 THEN <<"multi_kill">>
    ELSE << >>

ShutdownCondLow(streak) == streak >= ShutdownStreak - 1
\* if victim.kill_streak >= 3
ShutdownCond(streak) == streak >= ShutdownStreak

AceCondNoEdge(prev_alive, alive) == alive = 0
\* if prev_alive > 0 and alive == 0
AceCond(prev_alive, alive) == prev_alive > 0 /\ alive = 0

NexusLowCondZero(nexus_health) == nexus_health <= NexusLowHealth
\* if nexus_health <= 1000 and nexus_health > 0
NexusLowCond(nexus_health) == nexus_health <= NexusLowHealth /\ nexus_health > 0

\* ------------------------------------------------------ _find_likely_killer

FindLikelyKillerLastTie(cs, victim) ==
    LET enemy_team == EnemyTeam(victim.team)
        cand == {i \in DOMAIN cs : cs[i].team = enemy_team /\ cs[i].is_alive}
        dist(i) == Dist2(cs[i].position, victim.position)
    IN  IF cand = {} THEN 0
        ELSE CHOOSE i \in cand :
                \A j \in cand : dist(i) < dist(j) \/ (dist(i) = dist(j) /\ i >= j)
FindLikelyKillerAnyTeam(cs, victim) ==
    LET cand == {i \in DOMAIN cs : cs[i].is_alive}
        dist(i) == Dist2(cs[i].position, victim.position)
    IN  IF cand = {} THEN 0
        ELSE CHOOSE i \in cand :
                \A j \in cand : dist(i) < dist(j) \/ (dist(i) = dist(j) /\ i <= j)
\* index of the closest alive champion of the enemy team, 0 for None; of
\* several at the same distance the loop keeps the first in dict order
FindLikelyKiller(cs, victim) ==
    LET enemy_team == EnemyTeam(victim.team)
        cand == {i \in DOMAIN cs : cs[i].team = enemy_team /\ cs[i].is_alive}
        dist(i) == Dist2(cs[i].position, victim.position)
    IN  IF cand = {} THEN 0
        ELSE CHOOSE i \in cand :
                \A j \in cand : dist(i) < dist(j) \/ (dist(i) = dist(j) /\ i <= j)

\* position["x"] and position["y"] can both be read
HasXY(position) == {"x", "y"} \subseteq DOMAIN position

\* the loop of _find_likely_killer raises KeyError: it reads both components
\* of the position of every alive enemy it comes to, and of the victim's
FindLikelyKillerRaises(cs, victim) ==
    LET enemy_team == EnemyTeam(victim.team)
        cand == {i \in DOMAIN cs : cs[i].team = enemy_team /\ cs[i].is_alive}
    IN  /\ cand # {}
        /\ \/ ~HasXY(victim.position)
           \/ \E i \in cand : ~HasXY(cs[i].position)

\* ------------------------------------------------------ _on_champion_death

CreditKillPrepend(killer, timestamp) ==
    LET prepended == <<timestamp>> \o killer.recent_kills
        Keep(t) == InKillWindow(timestamp, t)
    IN  [killer EXCEPT !.kill_streak = @ + 1,
                       !.recent_kills = SelectSeq(prepended, Keep)]
\* killer.kill_streak += 1; append; prune to the window
CreditKill(killer, timestamp) ==
    LET appended == Append(killer.recent_kills, timestamp)
        Keep(t) == InKillWindow(timestamp, t)
    IN  [killer EXCEPT !.kill_streak = @ + 1,
                       !.recent_kills = SelectSeq(appended, Keep)]

\* kill_data; ki: index of the killer in cs, 0 for None
KillData(cs, vi, ki) ==
    [victim_id |-> cs[vi].id,
     victim |-> cs[vi].champion,
     victim_team |-> cs[vi].team,
     killer_id |-> IF ki # 0 THEN <<cs[ki].id>> ELSE << >>,
     killer |-> IF ki # 0 THEN cs[ki].champion ELSE "Unknown",
     killer_team |-> IF ki # 0 THEN <<cs[ki].team>> ELSE << >>]

\* first blood, or a champion kill
KillEvent(fb, kill_data, tick, timestamp) ==
    IF FirstBloodCond(fb)
    THEN GameEvent("first_blood", timestamp, tick, kill_data)
    ELSE GameEvent("champion_kill", timestamp, tick, kill_data)

\* recent_count = len(killer.recent_kills), after the prune
MultiKillEvents(killer, recent_count, tick, timestamp) ==
    LET mk == MultiKillType(recent_count)
    IN  IF mk = << >> THEN << >>
        ELSE IF mk[1] = "multi_kill"
        THEN <<GameEvent("multi_kill", timestamp, tick,
                 [champion |-> killer.champion, team |-> killer.team,
                  count |-> recent_count])>>
        ELSE <<GameEvent(mk[1], timestamp, tick,
                 [champion |-> killer.champion, team |-> killer.team])>>

ShutdownEvents(victim, killer, tick, timestamp) ==
    IF ShutdownCond(victim.kill_streak)
    THEN <<GameEvent("shutdown", timestamp, tick,
             [victim |-> victim.champion, killer |-> killer.champion,
              streak |-> victim.kill_streak])>>
    ELSE << >>

\* the events of a death, cs1 the champions after the killer's credit (if any)
DeathEvents(st, vi, ki, cs1, tick, timestamp) ==
    <<KillEvent(st.fb, KillData(st.cs, vi, ki), tick, timestamp)>>
    \o (IF ki # 0
        THEN MultiKillEvents(cs1[ki], Len(cs1[ki].recent_kills), tick, timestamp)
             \o ShutdownEvents(cs1[vi], cs1[ki], tick, timestamp)
        ELSE << >>)

\* the death with its killer resolved to ki (0 for None)
DeathBy(st, vi, ki, cs1, tick, timestamp) ==
    [cs |-> cs1,
     fb |-> TRUE,
     cr |-> IF ki # 0
            THEN [st.cr EXCEPT ![st.cs[ki].id] = Append(@, timestamp)]
            ELSE st.cr,
     events |-> DeathEvents(st, vi, ki, cs1, tick, timestamp)]

CreditKiller(st, vi, ki, tick, timestamp) ==
    DeathBy(st, vi, ki,
            IF ki # 0 THEN [st.cs EXCEPT ![ki] = CreditKill(@, timestamp)] ELSE st.cs,
            tick, timestamp)

\* st = [cs, fb, cr]: tracked champions, first-blood flag, credit observer.
\* vi: index of the victim in st.cs.  Returns [cs, fb, cr, events].
OnChampionDeath(st, vi, tick, timestamp) ==
    CreditKiller(st, vi, FindLikelyKiller(st.cs, st.cs[vi]), tick, timestamp)

\* -------------------------------------------------------- _process_champion

LevelEventsFromSix(prev_state, champ_data, tick, timestamp) ==
    IF champ_data.level > prev_state.level
    THEN <<GameEvent("level_up", timestamp, tick,
             [champion_id |-> champ_data.id,
              champion |-> prev_state.champion,
              team |-> prev_state.team,
              new_level |-> champ_data.level])>>
         \o (IF champ_data.level >= UltimateLevel
             THEN <<GameEvent("ultimate_ready", timestamp, tick,
                      [champion_id |-> champ_data.id,
                       champion |-> prev_state.champion,
                       team |-> prev_state.team])>>
             ELSE << >>)
    ELSE << >>
\* level up, ultimate ready at 6
LevelEvents(prev_state, champ_data, tick, timestamp) ==
    IF champ_data.level > prev_state.level
    THEN <<GameEvent("level_up", timestamp, tick,
             [champion_id |-> champ_data.id,
              champion |-> prev_state.champion,
              team |-> prev_state.team,
              new_level |-> champ_data.level])>>
         \o (IF champ_data.level = UltimateLevel
             THEN <<GameEvent("ultimate_ready", timestamp, tick,
                      [champion_id |-> champ_data.id,
                       champion |-> prev_state.champion,
                       team |-> prev_state.team])>>
             ELSE << >>)
    ELSE << >>

UpdateStateStaleHealth(prev_state, tracked, champ_data) ==
    [tracked EXCEPT !.kill_streak = IF ~prev_state.is_alive /\ champ_data.is_alive
                                    THEN 0 ELSE @,
                    !.max_health = champ_data.max_health,
                    !.level = champ_data.level,
                    !.is_alive = champ_data.is_alive,
                    !.position = champ_data.position]
UpdateStateResetOnDeath(prev_state, tracked, champ_data) ==
    [tracked EXCEPT !.kill_streak = IF prev_state.is_alive # champ_data.is_alive
                                    THEN 0 ELSE @,
                    !.health = champ_data.health,
                    !.max_health = champ_data.max_health,
                    !.level = champ_data.level,
                    !.is_alive = champ_data.is_alive,
                    !.position = champ_data.position]
\* respawn: kill_streak = 0; then the stored fields are refreshed
UpdateState(prev_state, tracked, champ_data) ==
    [tracked EXCEPT !.kill_streak = IF ~prev_state.is_alive /\ champ_data.is_alive
                                    THEN 0 ELSE @,
                    !.health = champ_data.health,
                    !.max_health = champ_data.max_health,
                    !.level = champ_data.level,
                    !.is_alive = champ_data.is_alive,
                    !.position = champ_data.position]

AfterDeathCheckLevelFirst(prev_state, d, ci, champ_data, tick, timestamp) ==
    [cs |-> [d.cs EXCEPT ![ci] = UpdateState(prev_state, @, champ_data)],
     fb |-> d.fb, cr |-> d.cr,
     events |-> LevelEvents(prev_state, champ_data, tick, timestamp) \o d.events]
\* d: what the death detection left ([cs, fb, cr, events])
AfterDeathCheck(prev_state, d, ci, champ_data, tick, timestamp) ==
    [cs |-> [d.cs EXCEPT ![ci] = UpdateState(prev_state, @, champ_data)],
     fb |-> d.fb, cr |-> d.cr,
     events |-> d.events \o LevelEvents(prev_state, champ_data, tick, timestamp)]

\* the champion is tracked at index ci
ProcessTracked(st, ci, champ_data, tick, timestamp) ==
    AfterDeathCheck(st.cs[ci],
                    IF st.cs[ci].is_alive /\ ~champ_data.is_alive
                    THEN OnChampionDeath(st, ci, tick, timestamp)
                    ELSE [cs |-> st.cs, fb |-> st.fb, cr |-> st.cr, events |-> << >>],
                    ci, champ_data, tick, timestamp)

ProcessAtEager(st, ci, champ_data, tick, timestamp) ==
    IF ci = 0
    THEN [cs |-> Append(st.cs, NewChampionState(champ_data)),
          fb |-> st.fb, cr |-> st.cr,
          events |-> LevelEvents([NewChampionState(champ_data) EXCEPT !.level = 1],
                                 champ_data, tick, timestamp)]
    ELSE ProcessTracked(st, ci, champ_data, tick, timestamp)
\* ci: index of the champion in st.cs, 0 when it is not tracked yet
ProcessAt(st, ci, champ_data, tick, timestamp) ==
    IF ci = 0
    THEN [cs |-> Append(st.cs, NewChampionState(champ_data)),
          fb |-> st.fb, cr |-> st.cr, events |-> << >>]
    ELSE ProcessTracked(st, ci, champ_data, tick, timestamp)

\* Returns [cs, fb, cr, events] after one champion record of the snapshot.
ProcessChampion(st, champ_data, tick, timestamp) ==
    ProcessAt(st, IndexOf(st.cs, champ_data.id), champ_data, tick, timestamp)

\* events.extend(...)
Extend(st, r) ==
    [cs |-> r.cs, fb |-> r.fb, cr |-> r.cr, events |-> st.events \o r.events]

\* for champ_data in champions: events.extend(self._process_champion(...))
RECURSIVE ProcessChampions(_, _, _, _, _)
ProcessChampions(st, champions, i, tick, timestamp) ==
    IF i > Len(champions) THEN st
    ELSE ProcessChampions(Extend(st, ProcessChampion(st, champions[i], tick, timestamp)),
                          champions, i + 1, tick, timestamp)

\* _process_champion raises: the record is a death of a tracked champion and
\* the search for its killer raises
ProcessChampionRaisesAt(cs, ci, champ_data) ==
    /\ ci # 0
    /\ cs[ci].is_alive
    /\ ~champ_data.is_alive
    /\ FindLikelyKillerRaises(cs, cs[ci])

ProcessChampionRaises(st, champ_data) ==
    ProcessChampionRaisesAt(st.cs, IndexOf(st.cs, champ_data.id), champ_data)

\* the index of the first record of the list at which the loop raises, 0 when
\* it runs to its end
RECURSIVE FirstRaise(_, _, _, _, _)
FirstRaise(st, champions, i, tick, timestamp) ==
    IF i > Len(champions) THEN 0
    ELSE IF ProcessChampionRaises(st, champions[i]) THEN i
    ELSE FirstRaise(Extend(st, ProcessChampion(st, champions[i], tick, timestamp)),
                    champions, i + 1, tick, timestamp)

\* ---------------------------------------------------------------- _check_ace

AliveCount(cs, team) ==
    Cardinality({i \in DOMAIN cs : cs[i].team = team /\ cs[i].is_alive})

AceEvents(cs, tac, team, tick, timestamp) ==
    IF AceCond(tac[team], AliveCount(cs, team))
    THEN <<GameEvent("ace", timestamp, tick,
             [aced_team |-> team, by_team |-> EnemyTeam(team)])>>
    ELSE << >>

\* Returns [tac, events]: the stored counts and the ACE events, blue first.
CheckAce(cs, tac, tick, timestamp) ==
    [tac |-> [team \in DOMAIN tac |-> AliveCount(cs, team)],
     events |-> AceEvents(cs, tac, Teams[1], tick, timestamp)
                \o AceEvents(cs, tac, Teams[2], tick, timestamp)]

\* ------------------------------------------------------- _process_structures

NexusHealth(state, team) ==
    Get(IF team = "blue" THEN state.blue_nexus_health ELSE state.red_nexus_health,
        NexusDefaultHealth)

NexusEvents(state, team, tick, timestamp) ==
    IF NexusLowCond(NexusHealth(state, team))
    THEN <<GameEvent("nexus_low", timestamp, tick,
             [team |-> team, health |-> NexusHealth(state, team)])>>
    ELSE << >>

ProcessStructures(state, tick, timestamp) ==
    NexusEvents(state, Teams[1], tick, timestamp)
    \o NexusEvents(state, Teams[2], tick, timestamp)

\* -------------------------------------------------------------------- detect

MatchStartEvents(starts, tick, timestamp) ==
    IF starts
    THEN <<GameEvent("match_start", timestamp, tick, << >>)>>
    ELSE << >>

MatchEndEvents(current_state, tick, timestamp) ==
    IF MatchEndCond(current_state.status)
    THEN <<GameEvent("match_end", timestamp, tick,
             [winner |-> current_state.winner, duration |-> timestamp])>>
    ELSE << >>

\* a death edge is in the snapshot (observer)
HasDeathEdge(cs, current_state) ==
    \E i \in DOMAIN current_state.champions :
       \E ci \in DOMAIN cs :
          /\ cs[ci].id = current_state.champions[i].id
          /\ cs[ci].is_alive
          /\ ~current_state.champions[i].is_alive

\* the end of the call: starts (match start fired), p (after the champions),
\* a (after the ace check)
DetectDone(current_state, starts, p, a, tick, timestamp) ==
    /\ match_started' = (match_started \/ starts)
    /\ champion_states' = p.cs
    /\ first_blood_occurred' = p.fb
    /\ team_alive_count' = a.tac
    /\ previous_state' = <<current_state>>
    /\ events' = MatchStartEvents(starts, tick, timestamp)
                 \o p.events \o a.events
                 \o ProcessStructures(current_state, tick, timestamp)
                 \o MatchEndEvents(current_state, tick, timestamp)
    /\ seenPlaying' = (seenPlaying \/ current_state.status = "playing")
    /\ deathSeen' = (deathSeen \/ HasDeathEdge(champion_states, current_state))
    /\ credits' = p.cr
    /\ detect_error' = ""

DetectAce(current_state, starts, p, tick, timestamp) ==
    DetectDone(current_state, starts, p,
               CheckAce(p.cs, team_alive_count, tick, timestamp), tick, timestamp)

\* EventDetector.detect(current_state): the whole call
Detect(current_state) ==
    DetectAce(current_state,
              MatchStartCond(match_started, current_state.status),
              ProcessChampions([cs |-> champion_states, fb |-> first_blood_occurred,
                                cr |-> credits, events |-> << >>],
                               current_state.champions, 1,
                               current_state.tick, current_state.match_time),
              current_state.tick, current_state.match_time)

\* the champion record as _process_champion reads it: champ_data.get(...)
\* with the defaults of the code; the position is taken as it is
ChampData(raw) ==
    [id |-> GetKey(raw, "id", ""),
     champion |-> GetKey(raw, "champion", "Unknown"),
     team |-> GetKey(raw, "team", "blue"),
     health |-> GetKey(raw, "health", 0),
     max_health |-> GetKey(raw, "max_health", 600),
     level |-> GetKey(raw, "level", 1),
     is_alive |-> GetKey(raw, "is_alive", TRUE),
     position |-> GetKey(raw, "position", [x |-> 0, y |-> 0])]

ChampsData(champions) == [i \in DOMAIN champions |-> ChampData(champions[i])]

\* the snapshot as detect() reads it: current_state.get(...); no status is
\* None, which is neither "playing" nor "ended"
StateData(raw) ==
    [tick |-> GetKey(raw, "tick", 0),
     match_time |-> GetKey(raw, "match_time", 0),
     status |-> GetKey(raw, "status", "None"),
     champions |-> ChampsData(GetKey(raw, "champions", << >>)),
     blue_nexus_health |-> GetKey(raw, "blue_nexus_health", << >>),
     red_nexus_health |-> GetKey(raw, "red_nexus_health", << >>),
     winner |-> GetKey(raw, "winner", << >>)]

\* the call of detect() whose champion loop raises at record k: the match
\* start and the records before k have taken effect, nothing is returned,
\* and the rest of the call (the ace check, previous_state) has not run
DetectRaised(current_state, p) ==
    /\ match_started' = (match_started
                           \/ MatchStartCond(match_started, current_state.status))
    /\ champion_states' = p.cs
    /\ first_blood_occurred' = p.fb
    /\ credits' = p.cr
    /\ events' = << >>
    /\ detect_error' = "KeyError"
    /\ UNCHANGED <<previous_state, team_alive_count, seenPlaying, deathSeen>>

DetectUpTo(current_state, k) ==
    IF k = 0
    THEN Detect(current_state)
    ELSE DetectRaised(current_state,
            ProcessChampions([cs |-> champion_states, fb |-> first_blood_occurred,
                              cr |-> credits, events |-> << >>],
                             SubSeq(current_state.champions, 1, k - 1), 1,
                             current_state.tick, current_state.match_time))

\* EventDetector.detect(current_state), the snapshot read with its defaults:
\* the call returns, or the KeyError of _find_likely_killer leaves it
DetectData(current_state) ==
    DetectUpTo(current_state,
               FirstRaise([cs |-> champion_states, fb |-> first_blood_occurred,
                           cr |-> credits, events |-> << >>],
                          current_state.champions, 1,
                          current_state.tick, current_state.match_time))

DetectPartial(raw) == DetectData(StateData(raw))

\* ------------------------------------------------------------ the snapshots

\* seconds by which match_time advances from one snapshot to the next
TimeSteps == {1, 5}

ChampionIds == {"b1", "b2", "r1"}

ChampTeam(id) == IF id = "r1" THEN "red" ELSE "blue"

ChampName(id) == IF id = "b1" THEN "Ironclad"
                 ELSE IF id = "b2" THEN "Voltaic" ELSE "Ironclad-red"

\* where a champion stands: the blue ones stay put, the red one between them
ChampXs(id) == IF id = "b1" THEN {1} ELSE IF id = "b2" THEN {3} ELSE {0}

ChampionRecord(id, is_alive, level, x) ==
    [id |-> id, champion |-> ChampName(id), team |-> ChampTeam(id),
     health |-> IF is_alive THEN 600 ELSE 0, max_health |-> 600,
     level |-> level, is_alive |-> is_alive, position |-> [x |-> x, y |-> 0]]

\* the records a snapshot may hold for champion id: one, or (optional) none
RecordChoices(id, optional, levels) ==
    (IF optional THEN {<< >>} ELSE {})
    \cup {<<ChampionRecord(id, al, lv, x)>> :
            al \in BOOLEAN, lv \in levels, x \in ChampXs(id)}

\* champion lists: each id at most once; ids in optional may be left out; the
\* red champion's level is one of redLevels
ChampionLists(optional, redLevels) ==
    {b1 \o b2 \o r1 : b1 \in RecordChoices("b1", "b1" \in optional, {1}),
                      b2 \in RecordChoices("b2", "b2" \in optional, {1}),
                      r1 \in RecordChoices("r1", "r1" \in optional, redLevels)}

Snapshot(tick, match_time, status, champions, blue, red, winner) ==
    [tick |-> tick, match_time |-> match_time, status |-> status,
     champions |-> champions, blue_nexus_health |-> blue,
     red_nexus_health |-> red, winner |-> winner]

LastTick == IF previous_state = << >> THEN 0 ELSE previous_state[1].tick
LastTime == IF previous_state = << >> THEN 0 ELSE previous_state[1].match_time

\* snapshots of a running match: every champion listed, alive or dead
KillSnapshots ==
    {Snapshot(LastTick + 1, LastTime + d, "playing", ch, << >>, << >>, << >>) :
        d \in TimeSteps, ch \in ChampionLists({}, {1})}

\* snapshots around the roster: the second blue champion may be missing from
\* the list; the match is pending, playing, or ended with the blue nexus low
RosterSnapshots ==
    {Snapshot(LastTick + 1, LastTime + 1, pr[1], ch, pr[2], << >>, pr[3]) :
        pr \in {<<"pending", << >>, << >>>>,
                <<"playing", << >>, << >>>>,
                <<"ended", <<NexusLowHealth>>, <<"red">>>>},
        ch \in ChampionLists({"b2"}, {1, UltimateLevel})}

\* snapshots around the match itself: its status, the nexus healths (missing,
\* destroyed, low, at and just over the threshold), the winner; no champions
MatchSnapshots ==
    {Snapshot(LastTick + 1, LastTime + d, st, << >>, blue, red, winner) :
        d \in TimeSteps,
        st \in {"pending", "playing", "ended"},
        blue \in {<< >>, <<0>>, <<1>>, <<NexusLowHealth>>, <<NexusLowHealth + 1>>},
        red \in {<< >>, <<0>>, <<NexusLowHealth>>},
        winner \in {<< >>, <<"blue">>, <<"red">>}}

\* snapshots one second apart with every champion listed.  The match is
\* pending (first snapshot only), playing, or ended with both nexuses low and
\* the red champion at level 6; the snapshot of the end is the last.
OrderProfiles ==
    IF previous_state = << >>
    THEN {<<"pending", << >>, << >>>>, <<"playing", << >>, << >>>>}
    ELSE IF previous_state[1].status = "ended"
    THEN {}
    ELSE {<<"playing", << >>, << >>>>, <<"ended", <<NexusLowHealth>>, <<"red">>>>}

OrderSnapshots ==
    UNION {{Snapshot(LastTick + 1, LastTime + 1, pr[1], ch, pr[2], pr[2], pr[3]) :
               ch \in ChampionLists({}, IF pr[1] = "ended" THEN {UltimateLevel} ELSE {1})} :
           pr \in OrderProfiles}

\* the levels the red champion is reported at: below, at and past the level
\* of the ultimate
RedLevels == {1, 5, 6, 7}

\* snapshots of a running match in which the red champion's level moves
\* freely; the second blue champion may be missing from the list
LevelSnapshots ==
    {Snapshot(LastTick + 1, LastTime + 1, "playing", ch, << >>, << >>, << >>) :
        ch \in ChampionLists({"b2"}, RedLevels)}

\* where the champions stand when the killer is looked for: the red one
\* stays put, each blue one is at distance 1 or 2 from it
KillerPositions(id) ==
    IF id = "b1" THEN {[x |-> 1, y |-> 0], [x |-> 4, y |-> 0]}
    ELSE IF id = "b2" THEN {[x |-> 3, y |-> 0], [x |-> 2, y |-> 2]}
    ELSE {[x |-> 2, y |-> 0]}

KillerRecords(id) ==
    {<<[ChampionRecord(id, al, 1, 0) EXCEPT !.position = pos]>> :
        al \in BOOLEAN, pos \in KillerPositions(id)}

\* snapshots of a running match, one second apart; the first may come without
\* the first blue champion, which is then tracked after the others
KillerSnapshots ==
    {Snapshot(LastTick + 1, LastTime + 1, "playing", b1 \o b2 \o r1,
              << >>, << >>, << >>) :
        b1 \in KillerRecords("b1") \cup (IF previous_state = << >> THEN {<< >>} ELSE {}),
        b2 \in KillerRecords("b2"),
        r1 \in KillerRecords("r1")}

\* a dict without some of its keys
Without(d, keys) == [k \in DOMAIN d \ keys |-> d[k]]

\* the keys a partial champion record lacks, and those its position lacks
DroppedFields == {{}, {"id"}, {"team"}, {"health", "is_alive"}, {"level"}, {"position"}}
DroppedComponents == {{}, {"y"}}

PartialRecord(id, is_alive, fields, components) ==
    Without([ChampionRecord(id, is_alive, 1, 0) EXCEPT
                !.position = Without(@, components)],
            fields)

PartialRecords(id) ==
    {PartialRecord(id, al, f, c) :
        al \in BOOLEAN, f \in DroppedFields, c \in DroppedComponents}

\* snapshots one second apart of a match being played, with a record for a
\* blue and for a red champion, any of them partial; the snapshot itself may
\* lack its status or its champion list
PartialSnapshots ==
    {Without(Snapshot(LastTick + 1, LastTime + 1, "playing", <<b1, r1>>,
                      << >>, << >>, << >>),
             top \cup {"blue_nexus_health", "red_nexus_health", "winner"}) :
        b1 \in PartialRecords("b1"), r1 \in PartialRecords("r1"),
        top \in {{}, {"status"}, {"champions"}}}

\* records with all their fields, without an id, or without health and alive
\* flag
RefreshRecords(id) ==
    {PartialRecord(id, al, f, {}) :
        al \in BOOLEAN, f \in {{}, {"id"}, {"health", "is_alive"}}}

\* snapshots one second apart of a match being played, the blue champion's
\* record in front of the red one's or left out
RefreshSnapshots ==
    {Without(Snapshot(LastTick + 1, LastTime + 1, "playing", b1 \o <<r1>>,
                      << >>, << >>, << >>),
             {"blue_nexus_health", "red_nexus_health", "winner"}) :
        b1 \in {<< >>} \cup {<<r>> : r \in RefreshRecords("b1")},
        r1 \in RefreshRecords("r1")}

\* ------------------------------------------------------- CommentaryEngine

Connections == 1..MaxSpectators

\* the tasks that call broadcast_commentary: process_game_update, with the
\* event's type, and enhance_commentary, with "enhanced".  Each method of
\* CommentaryEngine is taken as an operation of its own.
Tasks == {"process_game_update", "enhance_commentary"}

PyStr(value) == [py |-> "str", value |-> value]
PyEventType(value) == [py |-> "EventType", value |-> value]

\* the commentary_type argument each caller passes
CommentaryTypes(t) ==
    IF t = "process_game_update"
    THEN {PyEventType("first_blood")}
    ELSE {PyStr("enhanced")}

\* json.dumps({... "commentaryType": commentary_type ...}): a str is
\* serialized; a member of the plain Enum EventType raises TypeError
JsonSerializable(commentary_type) == commentary_type.py = "str"

\* a call of broadcast_commentary.  pc: "idle" (none yet), "sending" (at
\* await ws.send for cur), "returned", "raised".  members0: the set as the
\* for loop's iterator found it (it remembers the size).  visited,
\* disconnected: the loop's progress; the locals are gone when the call ends.
\* The other fields observe the call: closed0 (members0 whose connection was
\* closed when the call began), delivered (sends that succeeded), quiet (no
\* connection was accepted or lost while the call ran), expect (what the
\* previous call of the task left for this one to deliver to, when it began
\* with exactly one closed member and nothing changed since).
IdleCall ==
    [pc |-> "idle", error |-> "", cur |-> 0, members0 |-> {},
     visited |-> {}, disconnected |-> {},
     closed0 |-> {}, delivered |-> {}, quiet |-> TRUE, expect |-> << >>]

\* a connection is accepted or lost: the calls under way are no longer quiet,
\* and what ended calls observed is dropped
Unquiet(b) ==
    [t \in DOMAIN b |->
        IF b[t].pc = "sending"
        THEN [b[t] EXCEPT !.quiet = FALSE, !.expect = << >>]
        ELSE IdleCall]

\* The engine's coroutines share one event loop.  enhance_with_llm calls
\* self.anthropic_client.messages.create(...) of the synchronous client
\* anthropic.Anthropic() without an await: from the call until the client
\* returns or raises the coroutine does not yield, and no other coroutine
\* of the loop takes a step.
LoopFree == enh.pc # "request"

\* handle_spectator, up to its async for: self.spectators.add(websocket).
\* Connections are accepted in the order of their numbers (they are alike).
Connect(c) ==
    /\ LoopFree
    /\ conn[c].phase = "none"
    /\ \A d \in Connections : d < c => conn[d].phase # "none"
    /\ conn' = [conn EXCEPT ![c] = [phase |-> "listening", open |-> TRUE]]
    /\ spectators' = spectators \cup {c}
    /\ bc' = Unquiet(bc)
    /\ UNCHANGED <<detectorVars, sessionVars, generatorVars, scheduleVars, clientVars>>

\* the spectator's connection is lost (the network, or the spectator)
Close(c) ==
    /\ conn[c].phase = "listening"
    /\ conn[c].open
    /\ conn' = [conn EXCEPT ![c].open = FALSE]
    /\ bc' = Unquiet(bc)
    /\ UNCHANGED <<detectorVars, spectators, sessionVars, generatorVars, scheduleVars, clientVars>>

\* handle_spectator: the async for ends on the closed connection and the
\* finally block runs self.spectators.discard(websocket)
HandlerExit(c) ==
    /\ LoopFree
    /\ conn[c].phase = "listening"
    /\ ~conn[c].open
    /\ conn' = [conn EXCEPT ![c].phase = "done"]
    /\ spectators' = spectators \ {c}
    /\ UNCHANGED <<detectorVars, bc, sessionVars, generatorVars, scheduleVars, clientVars>>

\* what the previous call of the task leaves for the next to deliver to
ExpectNext(b) ==
    IF b.pc = "returned" /\ b.quiet /\ Cardinality(b.closed0) = 1
    THEN <<b.members0 \ b.closed0>>
    ELSE b.expect

\* the set iterator's check on every next(): RuntimeError "Set changed size
\* during iteration"
SetChangedSize(size0, set) == Cardinality(set) # size0

\* the members the set iterator may yield next: those it began with that are
\* still in the set and not yet yielded (it reaches all of them), and members
\* added since (it may or may not reach their slot)
IterMust(b, set) == (b.members0 \cap set) \ b.visited
IterMay(b, set) == (set \ b.members0) \ b.visited

\* self.spectators -= disconnected
Prune(set, disconnected) == set \ disconnected

\* the for loop's next step, the previous send (if any) done: the iterator
\* raises, yields the member to send to next, or is exhausted, and then
\* self.spectators -= disconnected runs and the call returns
LoopNext(t, b) ==
    IF SetChangedSize(Cardinality(b.members0), spectators)
    THEN /\ bc' = [bc EXCEPT ![t] = [b EXCEPT !.pc = "raised",
                                              !.error = "RuntimeError",
                                              !.cur = 0, !.disconnected = {}]]
         /\ UNCHANGED spectators
    ELSE \/ \E w \in IterMust(b, spectators) \cup IterMay(b, spectators) :
               /\ bc' = [bc EXCEPT ![t] = [b EXCEPT !.pc = "sending", !.cur = w,
                                                    !.visited = @ \cup {w}]]
               /\ UNCHANGED spectators
         \/ /\ IterMust(b, spectators) = {}
            /\ spectators' = Prune(spectators, b.disconnected)
            /\ bc' = [bc EXCEPT ![t] = [b EXCEPT !.pc = "returned", !.cur = 0,
                                                 !.disconnected = {}]]

\* broadcast_commentary(text, commentary_type), from the call to its first
\* await (or to its end)
BroadcastAs(t, commentary_type) ==
    LET b == [IdleCall EXCEPT
                !.members0 = spectators,
                !.closed0 = {c \in spectators : ~conn[c].open},
                !.expect = ExpectNext(bc[t])]
    IN  IF ~JsonSerializable(commentary_type)
        THEN /\ bc' = [bc EXCEPT ![t] = [b EXCEPT !.pc = "raised",
                                                  !.error = "TypeError"]]
             /\ UNCHANGED spectators
        ELSE LoopNext(t, b)

BroadcastBegin(t) ==
    \E commentary_type \in CommentaryTypes(t) : BroadcastAs(t, commentary_type)

\* the call, by a task that is not inside one
BroadcastCall(t) ==
    /\ LoopFree
    /\ bc[t].pc \in {"idle", "returned", "raised"}
    /\ BroadcastBegin(t)
    /\ UNCHANGED <<detectorVars, conn, sessionVars, generatorVars, scheduleVars, clientVars>>

\* await ws.send(message) completes, or raises ConnectionClosed, which is
\* caught: disconnected.add(ws); then the loop goes on
BroadcastSend(t) ==
    /\ LoopFree
    /\ bc[t].pc = "sending"
    /\ LET w == bc[t].cur
           b == IF conn[w].open
                THEN [bc[t] EXCEPT !.delivered = @ \cup {w}]
                ELSE [bc[t] EXCEPT !.disconnected = @ \cup {w}]
       IN  LoopNext(t, b)
    /\ UNCHANGED <<detectorVars, conn, sessionVars, generatorVars, scheduleVars, clientVars>>

\* ------------------------------------------ the session and its side tasks

EngineConnections == 1..MaxEngineSpectators

\* the snapshots the match server sends while no champion has joined: the
\* match is pending, or playing
SessionSnapshots ==
    {Snapshot(LastTick + 1, LastTime + 1, status, << >>, << >>, << >>, << >>) :
        status \in {"pending", "playing"}}

\* the keys of TEMPLATES
TemplateTypes ==
    {"match_start", "first_blood", "champion_kill", "double_kill",
     "triple_kill", "multi_kill", "shutdown", "ace", "tower_destroyed",
     "nexus_low", "nexus_destroyed", "level_up", "ultimate_ready", "match_end"}

\* generate_template(event) returns a text: TEMPLATES.get(event.event_type)
\* is a non-empty list
HasTemplate(event) == event.event_type \in TemplateTypes

\* the events of the list for which process_game_update has a commentary
Templated(ev) == SelectSeq(ev, HasTemplate)

\* connect_to_match: the loop is at await ws.recv() ("recv") or over
\* ("ended", with what ended it); count: the snapshots processed
RunningSession == [pc |-> "recv", cause |-> "", count |-> 0]

\* an exception leaves process_game_update: the inner try catches only
\* websockets.ConnectionClosed, so it leaves the while loop too and the
\* outer except Exception logs it; connect_to_match returns
SessionAfter(s, call) ==
    IF call.pc = "raised"
    THEN [s EXCEPT !.pc = "ended", !.cause = call.error]
    ELSE [s EXCEPT !.pc = "broadcast"]

\* process_game_update after detect(): the for loop over the events, to its
\* first await.  Without a commentary nothing is sent; otherwise
\* broadcast_commentary(commentary, event.event_type) is called for the first
\* event that has one.
ProcessEvents(ev) ==
    IF Templated(ev) = << >>
    THEN /\ session' = [session EXCEPT !.count = @ + 1]
         /\ UNCHANGED <<spectators, bc>>
    ELSE /\ BroadcastAs("process_game_update",
                        PyEventType(Templated(ev)[1].event_type))
         /\ session' = SessionAfter([session EXCEPT !.count = @ + 1],
                                    bc'["process_game_update"])

\* connect_to_match: message = await ws.recv(); data = json.loads(message);
\* await self.process_game_update(data)
Recv ==
    /\ LoopFree
    /\ session.pc = "recv"
    /\ session.count < MaxSnapshots
    /\ \E current_state \in SessionSnapshots : Detect(current_state)
    /\ ProcessEvents(events')
    /\ UNCHANGED <<conn, enh, tts, generatorVars, scheduleVars, clientVars>>

\* await ws.recv() raises websockets.ConnectionClosed: the match server is
\* gone; the inner except logs it and breaks out of the loop
SourceClosed ==
    /\ LoopFree
    /\ session.pc = "recv"
    /\ session' = [session EXCEPT !.pc = "ended", !.cause = "ConnectionClosed"]
    /\ UNCHANGED <<detectorVars, engineVars, enh, tts, generatorVars, scheduleVars, clientVars>>

\* the enhance_commentary task.  pc: "none", "request" (inside
\* anthropic_client.messages.create), "done"; result: what the request came
\* to; seen: the snapshots the session had processed when it did
NoEnhancement == [pc |-> "none", result |-> "", seen |-> 0]

\* enhance_commentary(event) is run as a task: enhance_with_llm builds the
\* prompt and calls the service
EnhanceStart ==
    /\ LoopFree
    /\ enh.pc \in {"none", "done"}
    /\ bc["enhance_commentary"].pc # "sending"
    /\ enh' = [NoEnhancement EXCEPT !.pc = "request"]
    /\ UNCHANGED <<detectorVars, engineVars, session, tts, generatorVars, scheduleVars, clientVars>>

\* the ways the request ends: a text, an exception, an empty text
Outcomes == {"text", "raises", "empty"}

\* enhance_with_llm's return value (a sequence: empty for None or ""):
\* response.content[0].text.strip(), or None from except Exception
EnhancedText(outcome) ==
    IF outcome = "text" THEN <<"enhanced text">> ELSE << >>

\* enhance_commentary: if enhanced:
ShouldBroadcastAlways(enhanced) == TRUE

ShouldBroadcast(enhanced) == enhanced # << >>

\* the request returns or raises, and enhance_commentary goes on to its
\* first await (or to its end)
EnhanceReply ==
    /\ enh.pc = "request"
    /\ \E outcome \in Outcomes :
          /\ enh' = [pc |-> "done", result |-> outcome, seen |-> session.count]
          /\ IF ShouldBroadcast(EnhancedText(outcome))
             THEN BroadcastBegin("enhance_commentary")
             ELSE UNCHANGED <<spectators, bc>>
    /\ UNCHANGED <<detectorVars, conn, session, tts, generatorVars, scheduleVars, clientVars>>

\* speak_commentary(text) is run as a task: await self.tts_engine.speak(text),
\* which awaits loop.run_in_executor(None, self._speak_sync, text)
SpeakStart ==
    /\ LoopFree
    /\ tts = "idle"
    /\ tts' = "speaking"
    /\ UNCHANGED <<detectorVars, engineVars, session, enh, generatorVars, scheduleVars, clientVars>>

\* the executor's thread is done (speech errors are caught there)
SpeakDone ==
    /\ LoopFree
    /\ tts = "speaking"
    /\ tts' = "idle"
    /\ UNCHANGED <<detectorVars, engineVars, session, enh, generatorVars, scheduleVars, clientVars>>

\* ---------------------------------------------------- CommentaryGenerator

\* a template is a sequence of literal texts and replacement fields
\* ({name} or {name:spec}); in a formatted text the fields are replaced by
\* values (format(value, spec))
Lit(text) == [kind |-> "lit", text |-> text]
Field(name, spec) == [kind |-> "field", name |-> name, spec |-> spec]
Value(value, spec) == [kind |-> "value", value |-> value, spec |-> spec]

\* TEMPLATES.get(event.event_type): the templates of the type, each cut into
\* its literal texts and its replacement fields; none (None) for a type that
\* is no key of TEMPLATES
TEMPLATES(type) ==
    CASE type = "match_start" ->
         <<<<Lit("Welcome to the Rift! The match has begun!")>>,
           <<Lit("Let's get ready to rumble! Match is starting!")>>,
           <<Lit("Champions are taking their positions. The battle begins!")>>>>
      [] type = "first_blood" ->
         <<<<Field("killer", ""), Lit(" draws first blood on "), Field("victim", ""), Lit("!")>>,
           <<Lit("FIRST BLOOD! "), Field("killer", ""), Lit(" takes down "), Field("victim", ""), Lit("!")>>,
           <<Field("killer", ""), Lit(" gets the first kill of the game against "), Field("victim", ""), Lit("!")>>>>
      [] type = "champion_kill" ->
         <<<<Field("killer", ""), Lit(" eliminates "), Field("victim", ""), Lit("!")>>,
           <<Field("victim", ""), Lit(" has been slain by "), Field("killer", ""), Lit(".")>>,
           <<Field("killer", ""), Lit(" takes down "), Field("victim", ""), Lit("!")>>,
           <<Lit("And "), Field("victim", ""), Lit(" goes down to "), Field("killer", ""), Lit("!")>>>>
      [] type = "double_kill" ->
         <<<<Lit("DOUBLE KILL for "), Field("champion", ""), Lit("!")>>,
           <<Field("champion", ""), Lit(" picks up a double kill!")>>,
           <<Lit("Two down! "), Field("champion", ""), Lit(" is on fire!")>>>>
      [] type = "triple_kill" ->
         <<<<Lit("TRIPLE KILL! "), Field("champion", ""), Lit(" is unstoppable!")>>,
           <<Field("champion", ""), Lit(" with the TRIPLE KILL!")>>,
           <<Lit("Three kills for "), Field("champion", ""), Lit("! What a play!")>>>>
      [] type = "multi_kill" ->
         <<<<Field("champion", ""), Lit(" IS ON A RAMPAGE! "), Field("count", ""), Lit(" KILLS!")>>,
           <<Lit("LEGENDARY! "), Field("champion", ""), Lit(" with "), Field("count", ""), Lit(" kills!")>>,
           <<Field("champion", ""), Lit(" is absolutely dominating with "), Field("count", ""), Lit(" kills!")>>>>
      [] type = "shutdown" ->
         <<<<Field("killer", ""), Lit(" SHUTS DOWN "), Field("victim", ""), Lit("! End of a "), Field("streak", ""), Lit(" kill streak!")>>,
           <<Lit("The rampage is over! "), Field("killer", ""), Lit(" stops "), Field("victim", ""), Lit("!")>>,
           <<Field("killer", ""), Lit(" puts an end to "), Field("victim", ""), Lit("'s killing spree!")>>>>
      [] type = "ace" ->
         <<<<Lit("ACE! "), Field("by_team", ""), Lit(" team wipes out "), Field("aced_team", ""), Lit("!")>>,
           <<Lit("ACED! Not a single "), Field("aced_team", ""), Lit(" champion standing!")>>,
           <<Lit("Total annihilation! "), Field("by_team", ""), Lit(" aces "), Field("aced_team", ""), Lit("!")>>>>
      [] type = "tower_destroyed" ->
         <<<<Field("team", ""), Lit("'s tower has been destroyed!")>>,
           <<Lit("Tower down for "), Field("team", ""), Lit("!")>>,
           <<Lit("Another tower falls for "), Field("team", ""), Lit("!")>>>>
      [] type = "nexus_low" ->
         <<<<Field("team", ""), Lit("'s nexus is critical! Only "), Field("health", ""), Lit(" HP remaining!")>>,
           <<Lit("The "), Field("team", ""), Lit(" nexus is under heavy attack!")>>,
           <<Lit("Things are looking dire for "), Field("team", ""), Lit("!")>>>>
      [] type = "nexus_destroyed" ->
         <<<<Field("winner", ""), Lit(" destroys the nexus! VICTORY!")>>,
           <<Lit("GG! "), Field("winner", ""), Lit(" wins the match!")>>,
           <<Lit("And that's the game! "), Field("winner", ""), Lit(" takes the victory!")>>>>
      [] type = "level_up" ->
         <<<<Field("champion", ""), Lit(" reaches level "), Field("new_level", ""), Lit(".")>>,
           <<Field("champion", ""), Lit(" levels up to "), Field("new_level", ""), Lit("!")>>>>
      [] type = "ultimate_ready" ->
         <<<<Field("champion", ""), Lit("'s ultimate is now available!")>>,
           <<Lit("Watch out! "), Field("champion", ""), Lit(" has their ultimate ready!")>>>>
      [] type = "match_end" ->
         <<<<Lit("GG! "), Field("winner", ""), Lit(" wins in "), Field("duration", ".0f"), Lit(" seconds!")>>,
           <<Lit("What a match! "), Field("winner", ""), Lit(" takes the victory!")>>,
           <<Lit("And it's over! "), Field("winner", ""), Lit(" claims victory!")>>>>
      [] OTHER -> << >>

\* the names the template refers to
FieldNames(template) ==
    {template[i].name : i \in {j \in DOMAIN template : template[j].kind = "field"}}

FormatPartial(template, data) ==
    [i \in DOMAIN template |->
        IF template[i].kind = "field" /\ template[i].name \in DOMAIN data
        THEN Value(data[template[i].name], template[i].spec)
        ELSE template[i]]
\* try: return template.format(**event.data); except KeyError: return
\* template.  format raises KeyError at the first name that is no key of data
Format(template, data) ==
    IF FieldNames(template) \subseteq DOMAIN data
    THEN [i \in DOMAIN template |->
             IF template[i].kind = "field"
             THEN Value(data[template[i].name], template[i].spec)
             ELSE template[i]]
    ELSE template

\* generate_template(event) with random.choice taking the k-th template:
\* << >> for None, else <<the text>>
GenerateTemplateText(event, k) ==
    IF TEMPLATES(event.event_type) = << >>
    THEN << >>
    ELSE <<Format(TEMPLATES(event.event_type)[k], event.data)>>

\* the indexes random.choice may take (one, unused, when there is no template)
Choices(type) ==
    IF TEMPLATES(type) = << >> THEN {1} ELSE DOMAIN TEMPLATES(type)

\* event payloads as the detector builds them, and for the types it does not
\* emit
SampleData(type) ==
    CASE type \in {"first_blood", "champion_kill"} ->
         [victim_id |-> "b1", victim |-> "Ironclad", victim_team |-> "blue",
          killer_id |-> <<"r1">>, killer |-> "Ironclad-red", killer_team |-> <<"red">>]
      [] type \in {"double_kill", "triple_kill"} ->
         [champion |-> "Ironclad-red", team |-> "red"]
      [] type = "multi_kill" ->
         [champion |-> "Ironclad-red", team |-> "red", count |-> 4]
      [] type = "shutdown" ->
         [victim |-> "Ironclad-red", killer |-> "Ironclad", streak |-> ShutdownStreak]
      [] type = "ace" -> [aced_team |-> "blue", by_team |-> "red"]
      [] type = "tower_destroyed" -> [team |-> "blue"]
      [] type = "nexus_low" -> [team |-> "blue", health |-> NexusLowHealth]
      [] type = "nexus_destroyed" -> [winner |-> "red"]
      [] type = "level_up" ->
         [champion_id |-> "r1", champion |-> "Ironclad-red", team |-> "red",
          new_level |-> UltimateLevel]
      [] type = "ultimate_ready" ->
         [champion_id |-> "r1", champion |-> "Ironclad-red", team |-> "red"]
      [] type = "match_end" -> [winner |-> <<"red">>, duration |-> 5]
      [] OTHER -> << >>

\* the names some template of the type refers to
Referenced(type) ==
    UNION {FieldNames(TEMPLATES(type)[k]) : k \in DOMAIN TEMPLATES(type)}

\* events of every type with a template and of two without, the payload
\* whole or without some of the fields the templates refer to
TemplateEvents ==
    UNION {{GameEvent(type, 1, 1, Without(SampleData(type), drop)) :
               drop \in SUBSET Referenced(type)} :
           type \in TemplateTypes \cup {"big_play", "teamfight_end"}}

\* a call of generate_template(event)
GenerateTemplate ==
    /\ \E event \in TemplateEvents :
          \E k \in Choices(event.event_type) :
             rendered' = <<[event |-> event,
                            template |-> IF TEMPLATES(event.event_type) = << >>
                                         THEN << >>
                                         ELSE TEMPLATES(event.event_type)[k],
                            text |-> GenerateTemplateText(event, k)]>>
    /\ UNCHANGED <<detectorVars, engineVars, sessionVars, scheduleVars, clientVars>>

\* ---------------------------------------- process_game_update: the side tasks

IsMajorWithKills(event) ==
    event.event_type \in
        {"first_blood", "champion_kill", "double_kill", "triple_kill",
         "multi_kill", "ace", "shutdown", "tower_destroyed", "nexus_low",
         "nexus_destroyed", "teamfight_end", "big_play", "match_end"}
\* GameEvent.is_major: event_type in major_types
IsMajor(event) ==
    event.event_type \in
        {"first_blood", "double_kill", "triple_kill", "multi_kill", "ace",
         "shutdown", "tower_destroyed", "nexus_low", "nexus_destroyed",
         "teamfight_end", "big_play", "match_end"}

\* the tasks one pass of the loop body creates, in order, once
\* broadcast_commentary has returned: nothing without a commentary;
\* enhance_commentary(event) if ENABLE_LLM and event.is_major;
\* speak_commentary(commentary) if self.tts_engine and event.is_major
CreatedTasks(enable_llm, enable_tts, event, commentary) ==
    IF commentary = << >>
    THEN << >>
    ELSE (IF enable_llm /\ IsMajor(event)
          THEN <<[task |-> "enhance_commentary", arg |-> event]>> ELSE << >>)
         \o (IF enable_tts /\ IsMajor(event)
             THEN <<[task |-> "speak_commentary", arg |-> commentary[1]]>>
             ELSE << >>)

\* one pass of the loop body of process_game_update for an event of the
\* list, taken from generate_template to the end of the body with the
\* broadcast returning; ENABLE_LLM and ENABLE_TTS are what the environment
\* set them to
ScheduleTasks ==
    /\ \E ENABLE_LLM \in BOOLEAN, ENABLE_TTS \in BOOLEAN, event \in TemplateEvents :
          \E k \in Choices(event.event_type) :
             scheduled' = <<[ENABLE_LLM |-> ENABLE_LLM,
                             ENABLE_TTS |-> ENABLE_TTS,
                             event |-> event,
                             commentary |-> GenerateTemplateText(event, k),
                             tasks |-> CreatedTasks(ENABLE_LLM, ENABLE_TTS, event,
                                          GenerateTemplateText(event, k))]>>
    /\ UNCHANGED <<detectorVars, engineVars, sessionVars, generatorVars, clientVars>>

\* ----------------------------------------------------------- AgentClient

\* AgentClient.__init__.  pc: "new", then where run() stands: "connecting"
\* (in websockets.connect), "auth" (in _authenticate), "messages" (in
\* _message_loop), "closing" (leaving the async with block), "sleeping" (in
\* asyncio.sleep), "returned".  The other fields observe the call: failures
\* (exceptions that left _connect_and_run), waits (sleeps begun), clean (some
\* _connect_and_run returned without one), on_disconnect (calls of
\* agent.on_disconnect), handled (messages _handle_message was called for),
\* last (type of the last of them), decides (calls of agent.decide), decided
\* (what the last one returned), actions (action messages given to ws.send),
\* match_ends (calls of agent.on_match_end).
NewClient ==
    [pc |-> "new", running |-> FALSE, reconnect_count |-> 0,
     reconnect_attempts |-> 0,
     failures |-> 0, waits |-> 0, clean |-> FALSE, on_disconnect |-> 0,
     handled |-> 0, last |-> "", decides |-> 0, decided |-> << >>,
     actions |-> 0, match_ends |-> 0]

\* run(): the while test, and what follows the loop
LoopTest(c) ==
    IF c.running /\ c.reconnect_count < c.reconnect_attempts
    THEN [c EXCEPT !.pc = "connecting"]
    ELSE [c EXCEPT !.pc = "returned", !.on_disconnect = @ + 1]

\* run(): except Exception: the count goes up, and the sleep is skipped when
\* it has reached reconnect_attempts
Failed(c) ==
    LET counted == [c EXCEPT !.reconnect_count = @ + 1, !.failures = @ + 1]
    IN  IF counted.reconnect_count < counted.reconnect_attempts
        THEN [counted EXCEPT !.pc = "sleeping", !.waits = @ + 1]
        ELSE LoopTest(counted)

\* asyncio.run(client.run()), for a config with reconnect_attempts attempts
Run ==
    /\ client.pc = "new"
    /\ \E reconnect_attempts \in 0..MaxAttempts :
          client' = LoopTest([client EXCEPT !.running = TRUE,
                                            !.reconnect_attempts = reconnect_attempts])
    /\ UNCHANGED <<detectorVars, engineVars, sessionVars, generatorVars, scheduleVars>>

\* _connect_and_run: websockets.connect has a connection
Connected ==
    /\ client.pc = "connecting"
    /\ client' = [client EXCEPT !.pc = "auth", !.reconnect_count = 0]
    /\ UNCHANGED <<detectorVars, engineVars, sessionVars, generatorVars, scheduleVars>>

\* _authenticate: the response is auth_success
Authenticated ==
    /\ client.pc = "auth"
    /\ client' = [client EXCEPT !.pc = "messages"]
    /\ UNCHANGED <<detectorVars, engineVars, sessionVars, generatorVars, scheduleVars>>

AfterMessageStillRunning(c, msg_type, returned) ==
    LET seen == [c EXCEPT !.handled = @ + 1, !.last = msg_type]
    IN  IF msg_type = "observation"
        THEN [seen EXCEPT !.decides = @ + 1, !.decided = returned,
                          !.actions = IF returned # << >> THEN @ + 1 ELSE @]
        ELSE IF msg_type = "match_end"
        THEN [seen EXCEPT !.match_ends = @ + 1]
        ELSE seen
\* _handle_message(message), and the test of the while of _message_loop that
\* follows it.  observation: actions = self.agent.decide(observation), and
\* _send_actions sends one action message unless the list is empty;
\* match_end: on_match_end, then self.running = False, which ends the loop;
\* match_start, pong, anything else: nothing is sent
AfterMessage(c, msg_type, returned) ==
    LET seen == [c EXCEPT !.handled = @ + 1, !.last = msg_type]
    IN  IF msg_type = "observation"
        THEN [seen EXCEPT !.decides = @ + 1, !.decided = returned,
                          !.actions = IF returned # << >> THEN @ + 1 ELSE @]
        ELSE IF msg_type = "match_end"
        THEN [seen EXCEPT !.match_ends = @ + 1, !.running = FALSE,
                          !.pc = "closing"]
        ELSE seen

\* _message_loop: a message is received and handled; returned is what
\* agent.decide returns for an observation
HandleMessage ==
    /\ client.pc = "messages"
    /\ client.handled < MaxMessages
    /\ \E msg_type \in {"observation", "match_start", "match_end", "pong", "ping"},
          returned \in {<< >>, <<"attack">>} :
          client' = AfterMessage(client, msg_type, returned)
    /\ UNCHANGED <<detectorVars, engineVars, sessionVars, generatorVars, scheduleVars>>

\* _message_loop: asyncio.CancelledError at the receive breaks the loop
Cancelled ==
    /\ client.pc = "messages"
    /\ client' = [client EXCEPT !.pc = "closing"]
    /\ UNCHANGED <<detectorVars, engineVars, sessionVars, generatorVars, scheduleVars>>

\* the async with block is left, the connection closed, and
\* _connect_and_run returns to the while test of run()
Closed ==
    /\ client.pc = "closing"
    /\ client' = LoopTest([client EXCEPT !.clean = TRUE])
    /\ UNCHANGED <<detectorVars, engineVars, sessionVars, generatorVars, scheduleVars>>

\* an exception leaves _connect_and_run: the connection cannot be made, the
\* authentication is refused or answered unexpectedly, a send or receive
\* fails, the message loop re-raises, the connection cannot be closed
ConnectAndRunRaises ==
    /\ client.pc \in {"connecting", "auth", "messages", "closing"}
    /\ client.failures < MaxFailures
    /\ client' = Failed(client)
    /\ UNCHANGED <<detectorVars, engineVars, sessionVars, generatorVars, scheduleVars>>

\* asyncio.sleep(reconnect_delay) is over
Wake ==
    /\ client.pc = "sleeping"
    /\ client' = LoopTest(client)
    /\ UNCHANGED <<detectorVars, engineVars, sessionVars, generatorVars, scheduleVars>>

\* ------------------------------------------------------- the specifications

Init ==
    /\ previous_state = << >>
    /\ champion_states = << >>
    /\ first_blood_occurred = FALSE
    /\ team_alive_count = [team \in {"blue", "red"} |-> 0]
    /\ match_started = FALSE
    /\ events = << >>
    /\ detect_error = ""
    /\ seenPlaying = FALSE
    /\ deathSeen = FALSE
    /\ credits = [id \in ChampionIds |-> << >>]
    /\ spectators = {}
    /\ conn = [c \in Connections |-> [phase |-> "none", open |-> FALSE]]
    /\ bc = [t \in Tasks |-> IdleCall]
    /\ session = RunningSession
    /\ enh = NoEnhancement
    /\ tts = "idle"
    /\ rendered = << >>
    /\ scheduled = << >>
    /\ client = NewClient

DetectKills ==
    /\ LastTick < MaxTick
    /\ \E current_state \in KillSnapshots : Detect(current_state)
    /\ UNCHANGED <<engineVars, sessionVars, generatorVars, scheduleVars, clientVars>>

Next == DetectKills

Spec == Init /\ [][Next]_vars

DetectRoster ==
    /\ LastTick < MaxRosterTick
    /\ \E current_state \in RosterSnapshots : Detect(current_state)
    /\ UNCHANGED <<engineVars, sessionVars, generatorVars, scheduleVars, clientVars>>

NextRoster == DetectRoster

SpecRoster == Init /\ [][NextRoster]_vars

DetectMatch ==
    /\ LastTick < MaxMatchTick
    /\ \E current_state \in MatchSnapshots : Detect(current_state)
    /\ UNCHANGED <<engineVars, sessionVars, generatorVars, scheduleVars, clientVars>>

NextMatch == DetectMatch

SpecMatch == Init /\ [][NextMatch]_vars

DetectOrder ==
    /\ LastTick < MaxOrderTick
    /\ \E current_state \in OrderSnapshots : Detect(current_state)
    /\ UNCHANGED <<engineVars, sessionVars, generatorVars, scheduleVars, clientVars>>

NextOrder == DetectOrder

SpecOrder == Init /\ [][NextOrder]_vars

DetectKiller ==
    /\ LastTick < MaxKillerTick
    /\ \E current_state \in KillerSnapshots : Detect(current_state)
    /\ UNCHANGED <<engineVars, sessionVars, generatorVars, scheduleVars, clientVars>>

NextKiller == DetectKiller

DetectLevels ==
    /\ LastTick < MaxLevelTick
    /\ \E current_state \in LevelSnapshots : Detect(current_state)
    /\ UNCHANGED <<engineVars, sessionVars, generatorVars, scheduleVars, clientVars>>

NextLevel == DetectLevels

SpecLevel == Init /\ [][NextLevel]_vars

SpecKiller == Init /\ [][NextKiller]_vars

\* an exception that leaves detect() ends the session: no snapshot follows
DetectPartialSnapshot ==
    /\ detect_error = ""
    /\ LastTick < MaxPartialTick
    /\ \E raw \in PartialSnapshots : DetectPartial(raw)
    /\ UNCHANGED <<engineVars, sessionVars, generatorVars, scheduleVars, clientVars>>

NextPartial == DetectPartialSnapshot

DetectRefresh ==
    /\ LastTick < MaxRefreshTick
    /\ \E raw \in RefreshSnapshots : DetectPartial(raw)
    /\ UNCHANGED <<engineVars, sessionVars, generatorVars, scheduleVars, clientVars>>

NextRefresh == DetectRefresh

SpecRefresh == Init /\ [][NextRefresh]_vars

SpecPartial == Init /\ [][NextPartial]_vars

NextBroadcast ==
    \/ \E c \in Connections : Connect(c)
    \/ \E c \in Connections : Close(c)
    \/ \E c \in Connections : HandlerExit(c)
    \/ \E t \in Tasks : BroadcastCall(t)
    \/ \E t \in Tasks : BroadcastSend(t)

SpecBroadcast == Init /\ [][NextBroadcast]_vars

NextTemplate == GenerateTemplate

SpecTemplate == Init /\ [][NextTemplate]_vars

NextSchedule == ScheduleTasks

NextClient ==
    \/ Run
    \/ Connected
    \/ Authenticated
    \/ HandleMessage
    \/ Cancelled
    \/ Closed
    \/ ConnectAndRunRaises
    \/ Wake

SpecClient == Init /\ [][NextClient]_vars

SpecSchedule == Init /\ [][NextSchedule]_vars

NextEngine ==
    \/ \E c \in EngineConnections : Connect(c)
    \/ \E c \in EngineConnections : Close(c)
    \/ \E c \in EngineConnections : HandlerExit(c)
    \/ Recv
    \/ SourceClosed
    \/ EnhanceStart
    \/ EnhanceReply
    \/ BroadcastSend("enhance_commentary")
    \/ SpeakStart
    \/ SpeakDone

SpecEngine == Init /\ [][NextEngine]_vars


\* ------------------------------------------------- reading a detect() call

\* the snapshot of the call that made the (primed) state
EventTypes(ev) == [i \in DOMAIN ev |-> ev[i].event_type]

IsKillEvent(e) == e.event_type \in {"first_blood", "champion_kill"}
IsMultiKillEvent(e) == e.event_type \in {"double_kill", "triple_kill", "multi_kill"}
IsDeathFollowUp(e) == IsMultiKillEvent(e) \/ e.event_type = "shutdown"

KillIndexes(ev) == {i \in DOMAIN ev : IsKillEvent(ev[i])}

\* the events emitted for the death whose kill event is ev[i]: the kill event's
\* followers up to the next event that is no multi-kill or shutdown event
DeathGroup(ev, i) ==
    LET stops == {j \in (i + 1)..(Len(ev) + 1) :
                    j = Len(ev) + 1 \/ ~IsDeathFollowUp(ev[j])}
        stop == CHOOSE j \in stops : \A k \in stops : j <= k
    IN  SubSeq(ev, i + 1, stop - 1)

MultiKillsOf(ev, i) == SelectSeq(DeathGroup(ev, i), IsMultiKillEvent)
ShutdownsOf(ev, i) ==
    SelectSeq(DeathGroup(ev, i), LAMBDA e : e.event_type = "shutdown")

\* the records of snapshot snap that are death edges against tracked state cs
DeathEdges(cs, snap) ==
    SelectSeq(snap.champions,
              LAMBDA c : /\ IndexOf(cs, c.id) # 0
                         /\ cs[IndexOf(cs, c.id)].is_alive
                         /\ ~c.is_alive)

\* kill events of ev credited to champion id
CreditedIndexes(ev, id) == {i \in KillIndexes(ev) : ev[i].data.killer_id = <<id>>}

Tracked(cs, id) == cs[IndexOf(cs, id)]

\* ------------------------------------------------------------------ claims

\* C2: FIRST_BLOOD is emitted at most once in the detector's lifetime: the
\* kill events of a call are one per death edge, in snapshot order, the first
\* death edge ever processed yields FIRST_BLOOD (killer resolved or not), every
\* later one CHAMPION_KILL, and the first-blood flag is never cleared.
C2_FirstBloodOnce ==
    [][LET snap == previous_state'[1]
           edges == DeathEdges(champion_states, snap)
           kills == SelectSeq(events', IsKillEvent)
       IN  /\ Len(kills) = Len(edges)
           /\ \A i \in DOMAIN kills :
                /\ kills[i].data.victim_id = edges[i].id
                /\ kills[i].event_type =
                     IF ~deathSeen /\ i = 1 THEN "first_blood" ELSE "champion_kill"
           /\ (first_blood_occurred => first_blood_occurred')
           /\ first_blood_occurred' = deathSeen']_vars

\* a call with two deaths, the first of them the first death ever:
\* FIRST_BLOOD and then CHAMPION_KILL
C2_Witness ==
    \E i, j \in DOMAIN events :
        /\ i < j
        /\ events[i].event_type = "first_blood"
        /\ events[j].event_type = "champion_kill"

\* the m most recent credited kills in c are at strictly increasing times and
\* span less than `span` seconds, and every earlier credited kill is at least
\* `gap` seconds older than the first of them (which so starts the chain)
FreshChain(c, m, span, gap) ==
    LET n == Len(c)
    IN  /\ m <= n
        /\ \A j \in (n - m + 1)..(n - 1) : c[j] < c[j + 1]
        /\ c[n] - c[n - m + 1] < span
        /\ \A j \in 1..(n - m) : c[n - m + 1] - c[j] >= gap

ExpectedMultiKill(m) ==
    IF m = 1 THEN << >>
    ELSE IF m = 2 THEN <<"double_kill">>
    ELSE IF m = 3 THEN <<"triple_kill">>
    ELSE <<"multi_kill">>

\* the death credited to champion id in this call (the only one) is the m-th
\* of a chain of kills and emits the m-th multi-kill event: none for the
\* first, MULTI_KILL with count 4 for the fourth
ChainClassified(id, Span(_), gap) ==
    LET idx == CreditedIndexes(events', id)
        i == CHOOSE k \in idx : TRUE
        mk == MultiKillsOf(events', i)
    IN  Cardinality(idx) = 1 =>
          \A m \in 1..4 :
             FreshChain(credits'[id], m, Span(m), gap)
             => /\ EventTypes(mk) = ExpectedMultiKill(m)
                /\ (m = 4 => mk[1].data.count = 4)

\* C3: kills of one killer at t1 < t2 < t3 (< t4), the last of
\* them at most 10 s after t1: a kill event only at t1, then DOUBLE_KILL at t2,
\* TRIPLE_KILL at t3, MULTI_KILL with count 4 at t4.  (t2 < t3 <= t1 + 10, so
\* t2 is less than 10 s after t1; t3, or t4, may be exactly 10 s after t1.)
C3_ChainWithin10Inclusive ==
    [][\A id \in ChampionIds :
         ChainClassified(id, LAMBDA m : IF m <= 2 THEN KillWindow ELSE KillWindow + 1,
                         KillWindow + 1)]_vars

\* What the code does classify this way: the chain with every kill of it less
\* than 10 s after t1 (timestamp - t < 10 keeps an entry).
C3_ChainWithin10 ==
    [][\A id \in ChampionIds :
         ChainClassified(id, LAMBDA m : KillWindow, KillWindow)]_vars

\* a fourth kill within the window: MULTI_KILL with count 4 after four
\* credited kills at four different times
C3_Witness ==
    \E i \in DOMAIN events :
        /\ events[i].event_type = "multi_kill"
        /\ events[i].data.count = 4
        /\ \E id \in ChampionIds : FreshChain(credits[id], 4, KillWindow, KillWindow)

\* C4: window exclusion.  A champion whose latest credited kill was at t and
\* that is credited with a kill at t + 11: the first death credited to it in
\* this call emits no multi-kill event, and afterwards its window holds only
\* the later timestamp.
C4_WindowExclusion ==
    [][\A id \in ChampionIds :
         LET idx == CreditedIndexes(events', id)
             first == CHOOSE i \in idx : \A k \in idx : i <= k
             c == credits[id]
             now == previous_state'[1].match_time
             window == Tracked(champion_states', id).recent_kills
         IN  (idx # {} /\ c # << >> /\ now = c[Len(c)] + KillWindow + 1)
             => /\ MultiKillsOf(events', first) = << >>
                /\ window # << >>
                /\ \A j \in DOMAIN window : window[j] = now]_vars

\* a kill 11 s after the killer's previous one has just been processed
C4_Witness ==
    \E id \in ChampionIds :
        LET c == credits[id]
        IN  /\ Len(c) >= 2
            /\ c[Len(c)] = c[Len(c) - 1] + KillWindow + 1
            /\ CreditedIndexes(events, id) # {}

\* the victim's kill_streak at the moment the death ev[i] is processed: its
\* tracked streak before the call plus the kills credited to it earlier in
\* this call
StreakAtDeath(cs, ev, i) ==
    Tracked(cs, ev[i].data.victim_id).kill_streak
    + Cardinality({k \in CreditedIndexes(ev, ev[i].data.victim_id) : k < i})

\* C5: for every death, SHUTDOWN is emitted iff the victim's kill_streak at
\* its death is >= 3 and a killer was resolved; it names that killer and
\* victim and carries that streak; no SHUTDOWN without a resolved killer, and
\* none that belongs to no death.
C5_ShutdownIff ==
    [][LET ev == events'
       IN  /\ \A i \in KillIndexes(ev) :
                LET sd == ShutdownsOf(ev, i)
                    streak == StreakAtDeath(champion_states, ev, i)
                IN  IF streak >= ShutdownStreak /\ ev[i].data.killer_id # << >>
                    THEN /\ Len(sd) = 1
                         /\ sd[1].data = [victim |-> ev[i].data.victim,
                                          killer |-> ev[i].data.killer,
                                          streak |-> streak]
                    ELSE sd = << >>
           /\ \A j \in DOMAIN ev :
                ev[j].event_type = "shutdown"
                => \E i \in KillIndexes(ev) :
                      i < j /\ j <= i + Len(DeathGroup(ev, i))]_vars

\* a SHUTDOWN has just been emitted
C5_Witness ==
    \E i \in DOMAIN events : events[i].event_type = "shutdown"

\* --------------------------------------------------- claims about the match

HasEvent(ev, type) == \E i \in DOMAIN ev : ev[i].event_type = type
CountEvents(ev, type) == Cardinality({i \in DOMAIN ev : ev[i].event_type = type})

\* C1: MATCH_START is emitted exactly once over any sequence of calls: in
\* the call for the first snapshot whose status is "playing" (exactly one
\* event, first of the result), in no later call, and never for a snapshot
\* whose status is not "playing".
C1_MatchStartOnce ==
    [][LET snap == previous_state'[1]
       IN  IF snap.status = "playing" /\ ~seenPlaying
           THEN /\ CountEvents(events', "match_start") = 1
                /\ events'[1].event_type = "match_start"
           ELSE ~HasEvent(events', "match_start")]_vars

\* a third or later snapshot with status "playing" has been processed: the
\* match start is in the past and no second MATCH_START is emitted
C1_Witness ==
    /\ match_started
    /\ previous_state # << >>
    /\ previous_state[1].status = "playing"
    /\ previous_state[1].tick >= 3
    /\ ~HasEvent(events, "match_start")

\* the NEXUS_LOW events of ev, in order, as <<team, health>>
NexusLowEvents(ev) ==
    LET low == SelectSeq(ev, LAMBDA e : e.event_type = "nexus_low")
    IN  [i \in DOMAIN low |-> <<low[i].data.team, low[i].data.health>>]

\* what C7 expects for one team: its health if the snapshot has one in (0, 1000]
ExpectedNexusLow(snap, team) ==
    LET h == IF team = "blue" THEN snap.blue_nexus_health ELSE snap.red_nexus_health
    IN  IF h # << >> /\ 0 < h[1] /\ h[1] <= 1000 THEN <<<<team, h[1]>>>> ELSE << >>

\* C7: every call emits, for each team, exactly one NEXUS_LOW{team, health} if
\* 0 < that team's nexus health <= 1000 in the snapshot and none otherwise
\* (health 0, over 1000, or missing), whatever was emitted in the calls before.
C7_NexusLowEveryCall ==
    [][LET snap == previous_state'[1]
       IN  NexusLowEvents(events') =
             ExpectedNexusLow(snap, "blue") \o ExpectedNexusLow(snap, "red")]_vars

\* a call after the first has emitted NEXUS_LOW for both teams, blue first,
\* at the two ends of the range (health 1 and health 1000)
C7_Witness ==
    /\ previous_state # << >>
    /\ previous_state[1].tick >= 2
    /\ NexusLowEvents(events) = <<<<"blue", 1>>, <<"red", NexusLowHealth>>>>

\* C10 (as claimed): MATCH_END is edge-triggered: emitted for a snapshot with
\* status "ended", winner and duration from the snapshot, only if the snapshot
\* before it did not have status "ended", and not otherwise.
C10_MatchEndEdge ==
    [][LET snap == previous_state'[1]
           edge == /\ snap.status = "ended"
                   /\ (previous_state = << >> \/ previous_state[1].status # "ended")
           ends == SelectSeq(events', LAMBDA e : e.event_type = "match_end")
       IN  IF edge
           THEN /\ Len(ends) = 1
                /\ ends[1].data = [winner |-> snap.winner, duration |-> snap.match_time]
           ELSE ends = << >>]_vars

\* ------------------------------------------------- claims about the roster

AceEventsOf(ev, team) ==
    SelectSeq(ev, LAMBDA e : e.event_type = "ace" /\ e.data.aced_team = team)

IsListed(snap, id) == \E i \in DOMAIN snap.champions : snap.champions[i].id = id

\* the snapshot lists every tracked champion of the team as dead, some of them
\* tracked alive, and lists no champion of the team as alive
SetsTeamDead(cs, snap, team) ==
    /\ \E i \in DOMAIN cs : cs[i].team = team /\ cs[i].is_alive
    /\ \A i \in DOMAIN cs : cs[i].team = team => IsListed(snap, cs[i].id)
    /\ \A i \in DOMAIN snap.champions :
          snap.champions[i].team = team => ~snap.champions[i].is_alive

\* C6: for each team a call emits exactly one ACE{aced_team: team, by_team:
\* the other team} if the alive count stored by the previous call was > 0 and
\* the team has no alive champion after this call's champions are processed,
\* and no ACE for that team otherwise; the stored count is always updated; a
\* snapshot that sets every blue champion dead includes ACE{blue, red}.
C6_AceOnWipe ==
    [][LET snap == previous_state'[1]
       IN  /\ \A team \in {"blue", "red"} :
                LET aces == AceEventsOf(events', team)
                    alive == {i \in DOMAIN champion_states' :
                                /\ champion_states'[i].team = team
                                /\ champion_states'[i].is_alive}
                IN  /\ IF team_alive_count[team] > 0 /\ alive = {}
                       THEN /\ Len(aces) = 1
                            /\ aces[1].data = [aced_team |-> team,
                                               by_team |-> EnemyTeam(team)]
                       ELSE aces = << >>
                    /\ team_alive_count'[team] = Cardinality(alive)
           /\ SetsTeamDead(champion_states, snap, "blue")
              => Len(AceEventsOf(events', "blue")) = 1]_vars

\* both blue champions have died in one call, which emitted ACE{blue, red}
C6_Witness ==
    /\ Len(AceEventsOf(events, "blue")) = 1
    /\ Cardinality({i \in KillIndexes(events) :
                      events[i].data.victim_team = "blue"}) = 2

\* The end-to-end scenario of C9, read as narrowly as it can be: A = b1 (blue)
\* and B = r1 (red) are tracked as alive and there was no first blood; the
\* snapshot reports A dead and B alive at its tracked level; no other listed
\* champion dies or gains a level; the match does not start with this
\* snapshot, has not ended, and no nexus is low.
E2EScenario(cs, snap) ==
    /\ ~first_blood_occurred
    /\ IndexOf(cs, "b1") # 0 /\ Tracked(cs, "b1").is_alive
    /\ IndexOf(cs, "r1") # 0 /\ Tracked(cs, "r1").is_alive
    /\ \E i \in DOMAIN snap.champions :
          snap.champions[i].id = "b1" /\ ~snap.champions[i].is_alive
    /\ \A i \in DOMAIN snap.champions :
          LET c == snap.champions[i]
          IN  (c.id # "b1" /\ IndexOf(cs, c.id) # 0)
              => /\ (Tracked(cs, c.id).is_alive => c.is_alive)
                 /\ c.level <= Tracked(cs, c.id).level
    /\ (snap.status = "playing" => match_started)
    /\ snap.status # "ended"
    /\ ExpectedNexusLow(snap, "blue") = << >>
    /\ ExpectedNexusLow(snap, "red") = << >>

FirstBloodOf(ev, killer_id, victim_id) ==
    /\ ev.event_type = "first_blood"
    /\ ev.data.killer_id = <<killer_id>>
    /\ ev.data.victim_id = victim_id

\* a blue champion is alive after the call: listed alive, or tracked alive and
\* not listed
BlueSurvives(cs, snap) ==
    \/ \E i \in DOMAIN snap.champions :
          snap.champions[i].team = "blue" /\ snap.champions[i].is_alive
    \/ \E i \in DOMAIN cs :
          cs[i].team = "blue" /\ cs[i].is_alive /\ ~IsListed(snap, cs[i].id)

\* C9 (as claimed): in the end-to-end scenario detect() returns exactly
\* [FIRST_BLOOD{killer: B, victim: A}].
C9_OnlyFirstBlood ==
    [][LET snap == previous_state'[1]
       IN  E2EScenario(champion_states, snap)
           => /\ Len(events') = 1
              /\ FirstBloodOf(events'[1], "r1", "b1")]_vars

\* C9 (amended): in the end-to-end scenario detect() returns FIRST_BLOOD{killer:
\* B, victim: A} first, followed by ACE{aced_team: blue, by_team: red} when no
\* blue champion is left alive, and nothing else; it is the one-element
\* sequence exactly when another blue champion is alive.
C9_FirstBloodThenAce ==
    [][LET snap == previous_state'[1]
       IN  E2EScenario(champion_states, snap)
           => /\ Len(events') = IF BlueSurvives(champion_states, snap) THEN 1 ELSE 2
              /\ FirstBloodOf(events'[1], "r1", "b1")
              /\ Len(events') = 2
                 => /\ events'[2].event_type = "ace"
                    /\ events'[2].data = [aced_team |-> "blue", by_team |-> "red"]]_vars

\* the scenario has just happened with A the last blue champion alive: the
\* call returned FIRST_BLOOD{killer: B, victim: A} and then ACE{blue, red}
C9_Witness ==
    /\ Len(events) = 2
    /\ FirstBloodOf(events[1], "r1", "b1")
    /\ events[2].event_type = "ace"
    /\ previous_state[1].status = "playing"
    /\ Tracked(champion_states, "r1").is_alive

\* ------------------------------------------ claims about the emission order

\* the champion an event of the per-champion checks belongs to: the victim of
\* a kill event, and of the multi-kill and SHUTDOWN events that follow it; the
\* champion that gained the level
LastKillIndex(ev, i) ==
    LET ks == {k \in KillIndexes(ev) : k <= i}
    IN  IF ks = {} THEN 0 ELSE CHOOSE k \in ks : \A l \in ks : l <= k

OwnerId(ev, i) ==
    IF ev[i].event_type \in {"level_up", "ultimate_ready"}
    THEN ev[i].data.champion_id
    ELSE ev[LastKillIndex(ev, i)].data.victim_id

ListIndex(snap, id) ==
    CHOOSE k \in DOMAIN snap.champions : snap.champions[k].id = id

TeamIndex(team) == CHOOSE k \in DOMAIN Teams : Teams[k] = team

\* where an event stands in the claimed order: the check that emits it, the
\* champion (in snapshot order) or team (blue, red) it is about, and its place
\* among the events of one champion
OrderKey(ev, snap, i) ==
    LET type == ev[i].event_type
    IN  IF type = "match_start" THEN <<1, 0, 0>>
        ELSE IF type = "ace" THEN <<3, TeamIndex(ev[i].data.aced_team), 0>>
        ELSE IF type = "nexus_low" THEN <<4, TeamIndex(ev[i].data.team), 0>>
        ELSE IF type = "match_end" THEN <<5, 0, 0>>
        ELSE <<2, ListIndex(snap, OwnerId(ev, i)),
               IF IsKillEvent(ev[i]) THEN 1
               ELSE IF IsMultiKillEvent(ev[i]) THEN 2
               ELSE IF type = "shutdown" THEN 3
               ELSE IF type = "level_up" THEN 4
               ELSE 5>>

KeyBefore(k1, k2) ==
    \/ k1[1] < k2[1]
    \/ k1[1] = k2[1] /\ k1[2] < k2[2]
    \/ k1[1] = k2[1] /\ k1[2] = k2[2] /\ k1[3] < k2[3]

\* C11: the events one detect() call returns are in the fixed order MATCH_START;
\* then the champions' events, champion by champion in snapshot order, for one
\* champion kill event, multi-kill event, SHUTDOWN, LEVEL_UP, ULTIMATE_READY;
\* then ACE (blue before red); then NEXUS_LOW (blue before red); then
\* MATCH_END; and every event carries the snapshot's tick and match_time.
C11_EmissionOrder ==
    [][LET snap == previous_state'[1]
           ev == events'
       IN  /\ \A i \in DOMAIN ev :
                /\ ev[i].tick = snap.tick
                /\ ev[i].timestamp = snap.match_time
                /\ (IsDeathFollowUp(ev[i]) => LastKillIndex(ev, i) # 0)
           /\ \A i \in 1..(Len(ev) - 1) :
                KeyBefore(OrderKey(ev, snap, i), OrderKey(ev, snap, i + 1))]_vars

\* one call returned, for the death of a levelled-up champion on a streak to a
\* killer with a kill in its window: kill, DOUBLE_KILL, SHUTDOWN, LEVEL_UP,
\* ULTIMATE_READY, then ACE, both NEXUS_LOW and MATCH_END
C11_Witness ==
    /\ EventTypes(events) =
         <<"champion_kill", "double_kill", "shutdown", "level_up",
           "ultimate_ready", "ace", "nexus_low", "nexus_low", "match_end">>
    /\ events[7].data.team = "blue"
    /\ events[8].data.team = "red"

\* MATCH_START came first in a call that also reported a death
C11_WitnessStart ==
    /\ Len(events) >= 2
    /\ events[1].event_type = "match_start"
    /\ IsKillEvent(events[2])

\* -------------------------------------------------- claims about broadcast

CallEnded(b) == b.pc \in {"returned", "raised"}

\* C8: a broadcast_commentary call that begins with N members of which exactly
\* one has a closed connection (and during which no connection is accepted or
\* lost) performs N - 1 successful deliveries; when it ends the closed member
\* is no longer in the set and the other N - 1 still are; and the next call
\* attempts delivery to exactly those N - 1 members.
C8_PrunesClosedMember ==
    \A t \in Tasks :
        LET b == bc[t]
        IN  /\ (CallEnded(b) /\ b.quiet /\ Cardinality(b.closed0) = 1)
               => /\ Cardinality(b.delivered) = Cardinality(b.members0) - 1
                  /\ b.closed0 \cap spectators = {}
                  /\ (b.members0 \ b.closed0) \subseteq spectators
            /\ (CallEnded(b) /\ b.quiet /\ b.expect # << >>)
               => b.visited = b.expect[1]

\* the step is a step of task t's broadcast_commentary call (its start, or the
\* completion of one of its sends)
BroadcastStep(t) == conn' = conn /\ bc'[t] # bc[t]

\* C12: in one broadcast_commentary call every spectator that is a member when
\* the call starts gets exactly one delivery attempt, whatever sends fail; the
\* call removes no member before the pass has finished; and when it has,
\* exactly the members whose send failed have been removed.
C12_FullPassThenPrune ==
    [][\A t \in Tasks :
         BroadcastStep(t) =>
            LET b == bc'[t]
            IN  /\ (b.pc = "sending" => spectators' = spectators)
                /\ (CallEnded(b) =>
                      /\ b.visited = b.members0
                      /\ spectators' = spectators \ (b.visited \ b.delivered))]_vars

\* C13: accept/disconnect and broadcast/prune never interleave: while a
\* broadcast_commentary pass is iterating over the spectator set (it is
\* suspended in a send), no step of another task (handle_spectator's add or
\* discard, another broadcast's prune) modifies the set, and no pass ever finds
\* the set changed under it.
C13_NoInterleaving ==
    [][\A t \in Tasks :
         /\ (bc[t].pc = "sending" /\ ~BroadcastStep(t)) => spectators' = spectators
         /\ bc'[t].error # "RuntimeError"]_vars

\* ----------------------------------------- the session and its side tasks

\* the session waits for a snapshot that the model lets it take
AwaitingSnapshot == session.pc = "recv" /\ session.count < MaxSnapshots

\* C14: while a request to the text service is outstanding, not yet answered
\* or failed, the main path can still receive the next snapshot, run
\* detect() and broadcast: it never has to wait for the request to end
C14_FastPathNotBlocked ==
    (enh.pc = "request" /\ AwaitingSnapshot) => ENABLED Recv

\* the request of the enhancement task has failed: the service raised, or
\* returned nothing
EnhanceFailed == enh.pc = "done" /\ enh.result \in {"raises", "empty"}

\* C16: a failing enhancement request is caught inside the enhancement task:
\* the step that ends it starts no broadcast and leaves the session and the
\* detector as they are, the task sends nothing afterwards, and a request is
\* made only by a task that begins, never again by the one that failed
C16_FailureContained ==
    [][/\ (enh.pc = "request" /\ EnhanceFailed') =>
             /\ bc' = bc
             /\ spectators' = spectators
             /\ session' = session
             /\ detectorVars' = detectorVars
       /\ EnhanceFailed' => bc'["enhance_commentary"].pc # "sending"
       /\ (EnhanceFailed /\ enh' # enh) =>
             enh' = [NoEnhancement EXCEPT !.pc = "request"]]_vars

\* the service raised, and the session has since processed a snapshot and
\* waits for the next
C16_Witness ==
    /\ EnhanceFailed
    /\ enh.result = "raises"
    /\ session.pc = "recv"
    /\ session.count > enh.seen

\* a step of the enhance_commentary task (its request, or its broadcast) or
\* of the speak_commentary task
SideTaskStep ==
    \/ enh' # enh
    \/ tts' # tts
    \/ conn' = conn /\ bc'["enhance_commentary"] # bc["enhance_commentary"]

\* C17: no step of enhance_commentary or speak_commentary changes the
\* detector state or the spectator membership set
C17_NeverMutateShared ==
    [][SideTaskStep =>
          /\ detectorVars' = detectorVars
          /\ spectators' = spectators]_vars

\* C18: the snapshot loop of connect_to_match ends only when the snapshot
\* source is exhausted or lost: no error raised while one snapshot is
\* detected, rendered or broadcast ends the session
C18_OnlySourceEndsSession ==
    session.pc = "ended" => session.cause = "ConnectionClosed"

\* the session has taken a snapshot and run process_game_update on it
SnapshotStep == session'.count = session.count + 1

\* C19: when a snapshot is processed, an event whose type has no template
\* produces no message and no error, and an event whose type has one is
\* broadcast on the fast path: the call does not raise, and when it is over
\* every spectator whose connection was open has been sent the message
C19_FastPathDelivers ==
    [][SnapshotStep =>
          LET b == bc'["process_game_update"]
          IN  IF Templated(events') = << >>
              THEN bc' = bc /\ session'.pc = "recv"
              ELSE /\ b.pc # "raised"
                   /\ b.pc = "returned" =>
                         b.delivered = b.members0 \ b.closed0]_vars

\* ------------------------------------------------------- partial snapshots

\* C20: detect() never fails on a partial snapshot: whatever top-level
\* fields, champion fields or position components are missing, the call
\* returns an event list and raises nothing
C20_DetectNeverRaises == detect_error = ""

\* ------------------------------------------ claims about the tracked state

TrackedIds(cs) == {cs[i].id : i \in DOMAIN cs}

\* the events of ev that the per-champion checks emit for champion id: its
\* death, its level
OwnEvents(ev, id) ==
    {i \in DOMAIN ev :
        \/ IsKillEvent(ev[i]) /\ ev[i].data.victim_id = id
        \/ /\ ev[i].event_type \in {"level_up", "ultimate_ready"}
           /\ ev[i].data.champion_id = id}

Listed(snap, id) == snap.champions[ListIndex(snap, id)]

\* the snapshot shows a champion alive that is tracked as dead
RespawnEdge(old, snap) ==
    /\ ~old.is_alive
    /\ IsListed(snap, old.id)
    /\ Listed(snap, old.id).is_alive

\* C22: the kill_streak of a tracked champion is never negative and changes
\* in two ways only: by 1 for every death of the call the champion is named
\* killer of, and to 0 on the champion's respawn edge, for which no event of
\* the respawn is emitted; the champion's own death leaves it as it is
C22_KillStreak ==
    [][LET snap == previous_state'[1]
       IN  \A i \in DOMAIN champion_states :
              LET old == champion_states[i]
                  new == Tracked(champion_states', old.id)
                  k == Cardinality(CreditedIndexes(events', old.id))
              IN  /\ new.kill_streak >= 0
                  /\ new.kill_streak =
                        IF RespawnEdge(old, snap) THEN k ELSE old.kill_streak + k
                  /\ RespawnEdge(old, snap) => OwnEvents(events', old.id) = {}]_vars

\* a champion on a streak of two has just died and still has its streak
C22_Witness ==
    \E i \in DOMAIN champion_states :
        /\ ~champion_states[i].is_alive
        /\ champion_states[i].kill_streak >= 2
        /\ \E j \in KillIndexes(events) :
              events[j].data.victim_id = champion_states[i].id

\* a champion that had a streak has respawned: the streak is 0 again
C22_WitnessRespawn ==
    \E id \in ChampionIds :
        /\ IndexOf(champion_states, id) # 0
        /\ Tracked(champion_states, id).is_alive
        /\ Tracked(champion_states, id).kill_streak = 0
        /\ Len(credits[id]) >= 2
        /\ events = << >>

Last(seq) == seq[Len(seq)]

\* C23: with match_time never going back from one snapshot to the next, the
\* recent kill timestamps of every tracked champion are in ascending order,
\* end with the champion's latest credited kill, and lie within 10 seconds
\* of it; they are empty only for a champion never credited with a kill
C23_WindowSorted ==
    \A i \in DOMAIN champion_states :
        LET w == champion_states[i].recent_kills
            c == credits[champion_states[i].id]
        IN  /\ (w = << >>) = (c = << >>)
            /\ w # << >> =>
                  /\ Last(w) = Last(c)
                  /\ \A j \in 1..(Len(w) - 1) : w[j] <= w[j + 1]
                  /\ \A j \in DOMAIN w : Last(w) - w[j] <= KillWindow

\* a champion holds two kills in its window, and an older one has been
\* dropped from it
C23_Witness ==
    \E i \in DOMAIN champion_states :
        LET w == champion_states[i].recent_kills
        IN  /\ Len(w) >= 2
            /\ w[1] < Last(w)
            /\ Len(credits[champion_states[i].id]) > Len(w)

\* ------------------------------------------------ claims about the texts

\* C24: generate_template on an event whose chosen template refers to a
\* field that the payload lacks returns the template itself, every
\* replacement field still in it; when the payload has every field the
\* template refers to, it returns the template with each replacement field
\* replaced by the payload's value and the literal texts as they are
C24_TemplateFallback ==
    \A i \in DOMAIN rendered :
        LET call == rendered[i]
            template == call.template
            data == call.event.data
        IN  call.event.event_type \in TemplateTypes =>
              /\ Len(call.text) = 1
              /\ IF FieldNames(template) \subseteq DOMAIN data
                 THEN /\ DOMAIN call.text[1] = DOMAIN template
                      /\ \A j \in DOMAIN template :
                            IF template[j].kind = "field"
                            THEN call.text[1][j] =
                                   Value(data[template[j].name], template[j].spec)
                            ELSE call.text[1][j] = template[j]
                 ELSE call.text[1] = template

\* a first-blood template was chosen for a payload that has the victim but
\* not the killer, and came back as it is
C24_Witness ==
    /\ rendered # << >>
    /\ rendered[1].event.event_type = "first_blood"
    /\ DOMAIN rendered[1].event.data \cap {"killer", "victim"} = {"victim"}
    /\ rendered[1].text = <<rendered[1].template>>
    /\ FieldNames(rendered[1].template) = {"killer", "victim"}

\* ---------------------------------------------- claims about a death edge

\* the indexes, in order, of the kill events of ev credited to champion id
CreditedSeq(ev, id) ==
    SelectSeq([i \in DOMAIN ev |-> i], LAMBDA i : i \in CreditedIndexes(ev, id))

\* C25 (as claimed): on each death edge with a resolved killer at snapshot
\* time t the killer's kill_streak grows by 1 and t is appended to its
\* window, from which exactly the entries more than 10 s old (t - t' > 10)
\* are removed; the n entries that result decide the multi-kill event: none
\* for n = 1, DOUBLE_KILL for 2, TRIPLE_KILL for 3, MULTI_KILL with count n
\* above, and never more than one
C25_CreditAndClassify ==
    [][LET snap == previous_state'[1]
           t == snap.match_time
       IN  \A i \in DOMAIN champion_states :
              LET old == champion_states[i]
                  new == Tracked(champion_states', old.id)
                  kills == CreditedSeq(events', old.id)
                  kept == SelectSeq(old.recent_kills, LAMBDA u : t - u <= KillWindow)
              IN  kills # << >> =>
                    /\ new.kill_streak =
                          (IF RespawnEdge(old, snap) THEN 0 ELSE old.kill_streak)
                          + Len(kills)
                    /\ new.recent_kills = kept \o [j \in DOMAIN kills |-> t]
                    /\ \A j \in DOMAIN kills :
                          LET mk == MultiKillsOf(events', kills[j])
                              n == Len(kept) + j
                          IN  /\ EventTypes(mk) = ExpectedMultiKill(n)
                              /\ (n > 3 => mk[1].data.count = n)]_vars

\* The tracked state of champion id at the moment the record at list index vi
\* is processed: a champion listed before vi has the alive flag and position
\* of its record, any other what the previous calls left; the team is the
\* one it was created with.
SeenBefore(snap, vi, id) == IsListed(snap, id) /\ ListIndex(snap, id) < vi

TrackedAt(cs, snap, vi, id) ==
    [known |-> IndexOf(cs, id) # 0 \/ SeenBefore(snap, vi, id),
     team |-> IF IndexOf(cs, id) # 0 THEN Tracked(cs, id).team
              ELSE IF IsListed(snap, id) THEN Listed(snap, id).team ELSE "",
     is_alive |-> IF SeenBefore(snap, vi, id) THEN Listed(snap, id).is_alive
                  ELSE IF IndexOf(cs, id) # 0 THEN Tracked(cs, id).is_alive
                  ELSE FALSE,
     position |-> IF SeenBefore(snap, vi, id) THEN Listed(snap, id).position
                  ELSE IF IndexOf(cs, id) # 0 THEN Tracked(cs, id).position
                  ELSE [x |-> 0, y |-> 0]]

\* the alive champions of the team opposing the victim at that moment
Opponents(cs, snap, victim) ==
    {id \in ChampionIds :
        LET c == TrackedAt(cs, snap, ListIndex(snap, victim.id), id)
        IN  c.known /\ c.is_alive /\ c.team = EnemyTeam(victim.team)}

\* C26: the killer named in a kill event is a champion of the team opposing
\* the victim, alive in the tracked state, at the least Euclidean distance
\* from the victim's tracked position, the one tracked first among several
\* at that distance; never the victim or a teammate; no killer is named
\* (killer_id none, killer "Unknown") exactly when no opposing champion is
\* alive
C26_NearestEnemy ==
    [][LET snap == previous_state'[1]
       IN  \A k \in KillIndexes(events') :
              LET victim == Tracked(champion_states, events'[k].data.victim_id)
                  vi == ListIndex(snap, victim.id)
                  opp == Opponents(champion_states, snap, victim)
                  d(id) == Dist2(TrackedAt(champion_states, snap, vi, id).position,
                                 victim.position)
                  first(id) == IndexOf(champion_states', id)
                  data == events'[k].data
              IN  IF opp = {}
                  THEN /\ data.killer_id = << >>
                       /\ data.killer = "Unknown"
                       /\ data.killer_team = << >>
                  ELSE /\ Len(data.killer_id) = 1
                       /\ data.killer_id[1] \in opp
                       /\ data.killer_id[1] # victim.id
                       /\ data.killer_team = <<EnemyTeam(victim.team)>>
                       /\ data.killer = ChampName(data.killer_id[1])
                       /\ \A id \in opp \ {data.killer_id[1]} :
                             \/ d(data.killer_id[1]) < d(id)
                             \/ /\ d(data.killer_id[1]) = d(id)
                                /\ first(data.killer_id[1]) < first(id)]_vars

\* the red champion has died with both blue champions alive and equally far
\* from it, the one listed first tracked last: the other is the killer
C26_Witness ==
    /\ \E k \in KillIndexes(events) :
          /\ events[k].data.victim_id = "r1"
          /\ events[k].data.killer_id = <<"b2">>
    /\ IndexOf(champion_states, "b2") < IndexOf(champion_states, "b1")
    /\ Tracked(champion_states, "b1").is_alive
    /\ Tracked(champion_states, "b2").is_alive
    /\ Dist2(Tracked(champion_states, "b1").position,
             Tracked(champion_states, "r1").position)
       = Dist2(Tracked(champion_states, "b2").position,
               Tracked(champion_states, "r1").position)

\* the indexes of the events of one type about champion id
IndexesOf(ev, type, id) ==
    {i \in DOMAIN ev : /\ ev[i].event_type = type
                       /\ "champion_id" \in DOMAIN ev[i].data
                       /\ ev[i].data.champion_id = id}

\* the snapshot raises the level of the tracked champion old
LevelRaised(old, snap) ==
    IsListed(snap, old.id) /\ Listed(snap, old.id).level > old.level

\* C27: for a tracked champion a call emits LEVEL_UP, with new_level the
\* snapshot's level, exactly when the snapshot's level is greater than the
\* tracked one, and ULTIMATE_READY exactly when it does so and the new level
\* is 6, directly after the LEVEL_UP; no other change of level (a jump past 6,
\* none, a decrease) emits ULTIMATE_READY, and a champion first seen emits
\* neither
C27_LevelEvents ==
    [][LET snap == previous_state'[1]
       IN  \A id \in ChampionIds :
              LET ups == IndexesOf(events', "level_up", id)
                  ults == IndexesOf(events', "ultimate_ready", id)
                  known == IndexOf(champion_states, id) # 0
                  raised == known /\ LevelRaised(Tracked(champion_states, id), snap)
              IN  /\ Cardinality(ups) = (IF raised THEN 1 ELSE 0)
                  /\ \A i \in ups : events'[i].data.new_level = Listed(snap, id).level
                  /\ Cardinality(ults)
                       = (IF raised /\ Listed(snap, id).level = UltimateLevel
                          THEN 1 ELSE 0)
                  /\ \A u \in ults : u - 1 \in ups]_vars

\* the red champion has gone from below 6 straight past it: LEVEL_UP without
\* ULTIMATE_READY
C27_Witness ==
    /\ \E i \in IndexesOf(events, "level_up", "r1") : events[i].data.new_level = 7
    /\ IndexesOf(events, "ultimate_ready", "r1") = {}
    /\ Tracked(champion_states, "r1").level = 7

\* the red champion has reached 6: ULTIMATE_READY follows its LEVEL_UP
C27_WitnessUltimate ==
    \E i \in IndexesOf(events, "level_up", "r1") :
        /\ events[i].data.new_level = UltimateLevel
        /\ i + 1 \in IndexesOf(events, "ultimate_ready", "r1")

\* ------------------------------------ claims about the refresh of the state

\* the fields of a tracked state that a record of the snapshot carries
StoredFields(c) ==
    [health |-> c.health, max_health |-> c.max_health, level |-> c.level,
     is_alive |-> c.is_alive, position |-> c.position]

\* the fields of a tracked state that only a kill credit changes
CreditFields(c) == [kill_streak |-> c.kill_streak, recent_kills |-> c.recent_kills]

\* C28 (as claimed): after a call that returns, the tracked health, max_health, level,
\* alive flag and position of every champion with a record in the snapshot
\* are those of the record, missing fields read as their defaults, whatever
\* events the record gave rise to; the tracked state of a champion without a
\* record is what it was, but for the kill_streak and the window of a
\* champion named killer in the call; and no call changes the id, the
\* champion type or the team of a tracked state
C28_Refresh ==
    [][detect_error' = "" =>
         LET snap == previous_state'[1]
         IN  /\ \A k \in DOMAIN snap.champions :
                   /\ IndexOf(champion_states', snap.champions[k].id) # 0
                   /\ StoredFields(Tracked(champion_states', snap.champions[k].id))
                        = StoredFields(snap.champions[k])
             /\ \A i \in DOMAIN champion_states :
                   LET old == champion_states[i]
                       new == champion_states'[i]
                   IN  /\ new.id = old.id
                       /\ new.champion = old.champion
                       /\ new.team = old.team
                       /\ ~IsListed(snap, old.id) =>
                             /\ StoredFields(new) = StoredFields(old)
                             /\ new.kill_streak
                                  = old.kill_streak + Len(CreditedSeq(events', old.id))
                             /\ CreditedSeq(events', old.id) = << >>
                                  => CreditFields(new) = CreditFields(old)]_vars

\* the record at index k is the last of the snapshot with its id
LastOfItsId(snap, k) ==
    \A j \in DOMAIN snap.champions :
        j > k => snap.champions[j].id # snap.champions[k].id

\* C28 (amended): as above, with the tracked fields of a champion those of
\* the last record of the snapshot with its id: records that share an id (as
\* two records without one do, both read as id "") are applied one after the
\* other to the same tracked state
C28_RefreshLast ==
    [][detect_error' = "" =>
         LET snap == previous_state'[1]
         IN  /\ \A k \in DOMAIN snap.champions :
                   /\ IndexOf(champion_states', snap.champions[k].id) # 0
                   /\ LastOfItsId(snap, k) =>
                         StoredFields(Tracked(champion_states', snap.champions[k].id))
                            = StoredFields(snap.champions[k])
             /\ \A i \in DOMAIN champion_states :
                   LET old == champion_states[i]
                       new == champion_states'[i]
                   IN  /\ new.id = old.id
                       /\ new.champion = old.champion
                       /\ new.team = old.team
                       /\ ~IsListed(snap, old.id) =>
                             /\ StoredFields(new) = StoredFields(old)
                             /\ new.kill_streak
                                  = old.kill_streak + Len(CreditedSeq(events', old.id))
                             /\ CreditedSeq(events', old.id) = << >>
                                  => CreditFields(new) = CreditFields(old)]_vars

\* a call has returned a kill event for the blue champion and left its
\* tracked state dead, without health, at the position of its record
C28_Witness ==
    /\ detect_error = ""
    /\ previous_state # << >>
    /\ \E k \in KillIndexes(events) : events[k].data.victim_id = "b1"
    /\ IsListed(previous_state[1], "b1")
    /\ StoredFields(Tracked(champion_states, "b1"))
         = StoredFields(Listed(previous_state[1], "b1"))
    /\ Tracked(champion_states, "b1").health = 0
    /\ ~Tracked(champion_states, "b1").is_alive

\* the blue champion has been credited with a kill in a call whose snapshot
\* had no record of it
C28_WitnessAbsent ==
    /\ previous_state # << >>
    /\ ~IsListed(previous_state[1], "b1")
    /\ CreditedSeq(events, "b1") # << >>
    /\ Tracked(champion_states, "b1").kill_streak > 0

\* ------------------------------------------- claims about the side tasks

\* the enhancement requests of a pass of the loop body
Requests(pass) == SelectSeq(pass.tasks, LAMBDA t : t.task = "enhance_commentary")

\* C29: a pass of the loop body schedules an enhancement request for its
\* event only with enhancement enabled and the event's type among the major
\* ones; with enhancement disabled it schedules none, so that nothing of
\* kind "enhanced" is broadcast; MATCH_START, CHAMPION_KILL, LEVEL_UP and
\* ULTIMATE_READY never cause one; and no pass schedules more than one, which
\* is for the event of the pass
C29_EnhancementGate ==
    \A i \in DOMAIN scheduled :
        LET pass == scheduled[i]
            requests == Requests(pass)
        IN  /\ Len(requests) <= 1
            /\ \A r \in DOMAIN requests : requests[r].arg = pass.event
            /\ requests # << >> =>
                  /\ pass.ENABLE_LLM
                  /\ pass.commentary # << >>
                  /\ pass.event.event_type \in
                        {"first_blood", "double_kill", "triple_kill", "multi_kill",
                         "ace", "shutdown", "tower_destroyed", "nexus_low",
                         "nexus_destroyed", "teamfight_end", "big_play",
                         "match_end"}
            /\ ~pass.ENABLE_LLM => requests = << >>
            /\ pass.event.event_type \in
                  {"match_start", "champion_kill", "level_up", "ultimate_ready"}
                  => requests = << >>

\* with enhancement enabled a pass for a first blood has scheduled its request
C29_Witness ==
    /\ scheduled # << >>
    /\ scheduled[1].ENABLE_LLM
    /\ scheduled[1].event.event_type = "first_blood"
    /\ Len(Requests(scheduled[1])) = 1

\* with enhancement enabled a pass for a champion kill has scheduled nothing
C29_WitnessMinor ==
    /\ scheduled # << >>
    /\ scheduled[1].ENABLE_LLM
    /\ scheduled[1].event.event_type = "champion_kill"
    /\ scheduled[1].commentary # << >>
    /\ scheduled[1].tasks = << >>

\* ------------------------------------------------ claims about AgentClient

\* C30: run() makes a bounded number of attempts: as long as every
\* _connect_and_run has ended in an error, wherever in it the error arose,
\* there have been no more than reconnect_attempts of them, a wait has
\* followed each one that a retry follows, and with the last of them run()
\* has called on_disconnect once and returned
C30_BoundedAttempts ==
    (client.pc # "new" /\ ~client.clean) =>
        /\ client.failures <= client.reconnect_attempts
        /\ client.waits = (IF client.pc = "returned" /\ client.failures > 0
                            THEN client.failures - 1 ELSE client.failures)
        /\ client.failures = client.reconnect_attempts
              => client.pc = "returned" /\ client.on_disconnect = 1

\* ---------------------------------------------- claims about the kill events

\* C33: a call returns as many kill events (FIRST_BLOOD, CHAMPION_KILL) as
\* the snapshot has death edges of tracked champions, one for each, naming it
\* as victim; a champion that stays dead or alive, respawns or is seen for
\* the first time has none; and every DOUBLE_KILL, TRIPLE_KILL, MULTI_KILL is
\* directly after a kill event of the call, every SHUTDOWN directly after a
\* kill event or its multi-kill event
C33_KillPerDeathEdge ==
    [][LET snap == previous_state'[1]
           ev == events'
           edges == DeathEdges(champion_states, snap)
           kills == KillIndexes(ev)
       IN  /\ Cardinality(kills) = Len(edges)
           /\ \A k \in DOMAIN edges :
                 Cardinality({i \in kills : ev[i].data.victim_id = edges[k].id}) = 1
           /\ \A i \in kills :
                 \E k \in DOMAIN edges : edges[k].id = ev[i].data.victim_id
           /\ \A i \in DOMAIN ev :
                 /\ IsMultiKillEvent(ev[i]) => i > 1 /\ IsKillEvent(ev[i - 1])
                 /\ ev[i].event_type = "shutdown" =>
                       /\ i > 1
                       /\ \/ IsKillEvent(ev[i - 1])
                          \/ /\ IsMultiKillEvent(ev[i - 1])
                             /\ i > 2
                             /\ IsKillEvent(ev[i - 2])]_vars

\* C35: the kill window holds kills of the killer's current life only: a
\* tracked champion never has more timestamps in its window than its
\* kill_streak counts, and a DOUBLE_KILL, TRIPLE_KILL or MULTI_KILL never
\* reflects a window larger than the killer's kill_streak
C35_WindowWithinStreak ==
    \A i \in DOMAIN champion_states :
        Len(champion_states[i].recent_kills) <= champion_states[i].kill_streak

\* C35, at the event: no DOUBLE_KILL is returned for a killer whose
\* kill_streak is 1 when the call ends
C35_MultiKillWithinStreak ==
    \A k \in KillIndexes(events) :
        (MultiKillsOf(events, k) # << >> /\ events[k].data.killer_id # << >>) =>
            Tracked(champion_states, events[k].data.killer_id[1]).kill_streak >= 2

\* ------------------------------------ claims about the order of the records

\* the champion list with its records in the order p (a permutation of its
\* indexes)
Reordered(champions, p) == [i \in DOMAIN champions |-> champions[p[i]]]

\* what the loop over the champion records returns and leaves when run from
\* the present state on the list champions
ChampionPass(champions, tick, timestamp) ==
    ProcessChampions([cs |-> champion_states, fb |-> first_blood_occurred,
                      cr |-> credits, events |-> << >>],
                     champions, 1, tick, timestamp)

\* the elements of a sequence, the order left aside
Elements(seq) == {seq[i] : i \in DOMAIN seq}

\* C34: what a call returns and leaves does not depend on the order of the
\* champion records in its snapshot: from the state the call began in, the
\* records in any other order give the same per-champion events (the order
\* of the events aside), the same tracked states and the same first-blood
\* flag
C34_OrderIndependent ==
    [][LET snap == previous_state'[1]
           base == ChampionPass(snap.champions, snap.tick, snap.match_time)
       IN  /\ base.cs = champion_states'
           /\ \A p \in Permutations(DOMAIN snap.champions) :
                 LET other == ChampionPass(Reordered(snap.champions, p),
                                           snap.tick, snap.match_time)
                 IN  /\ Len(other.events) = Len(base.events)
                     /\ Elements(other.events) = Elements(base.events)
                     /\ Elements(other.cs) = Elements(base.cs)
                     /\ other.fb = base.fb]_vars

\* ------------------------------------- claims about the client's messages

\* the step handles a message of the type
Handles(type) ==
    client'.handled = client.handled + 1 /\ client'.last = type

\* C31: once a match_end has been handled, on_match_end has been called
\* once for it, no other message is handled (no decide call, no action
\* message), no connection is attempted again, and run() returns with
\* on_disconnect called exactly once; before, every observation handled
\* gives one call of decide, and one action message exactly when decide
\* returned a list that is not empty, and no other message gives either
C31_MatchEndStops ==
    [][/\ client'.match_ends <= 1
       /\ client'.on_disconnect <= 1
       /\ Handles("match_end") => client'.match_ends = client.match_ends + 1
       /\ client.match_ends = 1 =>
             /\ client'.handled = client.handled
             /\ client'.match_ends = 1
             /\ client'.pc \in {"closing", "sleeping", "returned"}
       /\ (client'.match_ends = 1 /\ client'.pc = "returned")
             => client'.on_disconnect = 1
       /\ client'.pc = "returned" => client'.on_disconnect = 1
       /\ client'.decides
            = client.decides + (IF Handles("observation") THEN 1 ELSE 0)
       /\ client'.actions
            = client.actions + (IF Handles("observation") /\ client'.decided # << >>
                                THEN 1 ELSE 0)]_vars

\* run() has returned after a match_end, an observation answered with an
\* action message and one answered with none handled before it
C31_Witness ==
    /\ client.pc = "returned"
    /\ client.match_ends = 1
    /\ client.on_disconnect = 1
    /\ client.decides = 2
    /\ client.actions = 1
    /\ client.last = "match_end"

\* ------------------------------------- claims about the order of delivery

\* C32: a spectator that stays connected receives the fast-path messages of
\* the events in the order detect() emitted them, within a snapshot and
\* from one snapshot to the next: when a snapshot with events to render has
\* been taken, the broadcast of the first of them is under way or done, with
\* the message delivered to the spectator when it is done, and the session
\* goes on to the events and snapshots that follow
C32_FastPathInOrder ==
    [][SnapshotStep =>
          \A c \in spectators :
              (conn[c].open /\ conn'[c].open /\ Templated(events') # << >>) =>
                  LET b == bc'["process_game_update"]
                  IN  /\ b.pc \in {"sending", "returned"}
                      /\ c \in b.members0
                      /\ b.pc = "returned" => c \in b.delivered
                      /\ session'.pc # "ended"]_vars

====
